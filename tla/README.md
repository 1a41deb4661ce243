# A verification of the Firebase JavaScript SDK

The SDK is a set of clients that keep long-lived state in a browser page:
connections that break, tokens that change, queues that outlive the page.
This directory models its core, checks it with TLC and proves what matters most
with TLAPS. Source paths are relative to `packages/` of the repository unless
they start with `src/`.

It covers five parts:

* **the Firestore write path**, everything between `setDoc()` and the promise it
  returned;
* **Firestore listens**, from `onSnapshot()` over the watch stream to a view
  that is shown as up to date, with limbo resolution and the local cache;
* **several tabs** over one Firestore cache, with the primary lease;
* **Realtime Database writes and transactions** over a connection that breaks;
* **the Storage upload**, everything between `uploadBytesResumable()` and the
  end of its task.

The last sections say what is left out and give the plan for the rest.

## 1. The system

### Inventory

| Part | State | Operations | Talks to | What is hard |
|---|---|---|---|---|
| Firestore `AsyncQueue` | FIFO of tasks, delayed operations, `retryableOps`, `failure` | enqueue, enqueueAfterDelay, enqueueRetryable, enterRestrictedMode | every Firestore component runs on it | one assertion kills it for good; retries run out of order |
| Firestore write stream (`PersistentStream`, `PersistentWriteStream`) | state, closeCount, stream, idle and backoff timers, handshake | start, stop, auth, writeMutations, markIdle, inhibitBackoff, callbacks | credentials, Datastore, RemoteStore | callbacks of dead streams; tokens fetched off the queue |
| Firestore listen stream, `WatchChangeAggregator`, `OnlineStateTracker` | listen targets, pending responses, target states, resume tokens | listen, unlisten, watch changes, existence filters | SyncEngine, LocalStore | messages of an earlier target incarnation; failures while raising a snapshot |
| Firestore `RemoteStore` | write pipeline, listen targets, offline causes | enable/disable network, fill pipeline, results, errors, credential change, recovery | both streams, SyncEngine | several reasons to be offline; failing transactions |
| Firestore `SyncEngine` | views, user callbacks, limbo resolutions, pending-writes callbacks, current user | write, listen, apply remote event, acknowledge, reject, user change | LocalStore, RemoteStore, EventManager | operations retried as a whole; user changes |
| Firestore `LocalStore` and IndexedDB | mutation queues per user, document-mutation rows, targets, remote documents, overlays | write locally, acknowledge, reject, user change, queries | IndexedDB | aborted transactions next to in-memory state |
| Firestore persistence and tabs | primary lease, client metadata, WebStorage | acquire, release, zombie detection, broadcast | LocalStore, SyncEngine | two tabs, throttled timers, crashes |
| Firestore garbage collection, queries, serializer, pipelines | sequence numbers; none; none; none | collect; pure functions | LocalStore | boundaries |
| Storage `UploadTask` | state, request, timeout, transferred bytes | pause, resume, cancel, chunk, status, metadata | HTTP, Auth, App Check | user calls while a token or a request is outstanding |
| Realtime Database `PersistentConnection`, `Repo` | connection state, outstanding puts and listens, interrupt reasons, transaction queue | connect, put, listen, onDisconnect, interrupt, transactions | WebSocket or long polling | reconnection, transactions on the wire |
| Installations, App Check, Auth | registration entry, tokens in flight, operation queue | register, refresh, sign in | IndexedDB, HTTP | two tabs, one entry |
| Remote Config, Messaging, Performance, Analytics, Functions, Data Connect, AI | mostly requests and caches | fetch, log, call | HTTP | retry budgets |
| app, component, util, logger, compat and type packages | registries | register, get | everything | nothing concurrent |

`PROJECT.json` lists each with its status, and under `hazards` what is hard to
test in it, at its line.

### The write path

A write is assigned a batch id and appended to the **mutation queue** of the
current user in IndexedDB; its promise is remembered by `SyncEngine` under that
user. `RemoteStore` keeps the first `MAX_PENDING_WRITES` batches of the queue in
the **write pipeline**, and while the pipeline holds something and no reason to
be offline exists, the **write stream** is to be started. The stream fetches
tokens, opens an RPC, exchanges a handshake, sends the batches of the pipeline,
and gets one response per batch, in order, that does not say which batch it is
for. A response acknowledges the first batch of the pipeline; a permanent error
rejects it; any other error restarts the stream with backoff and everything is
sent again. A transaction that fails takes the network down until the failed
operation succeeds (`executeWithRecovery`). A new user resets the whole path to
that user's queue.

All of it runs on the AsyncQueue, one task at a time, and an `await` inside a
task never lets another task in. What interleaves is the order of tasks: calls
of the application, timers, callbacks of streams that may be gone by then,
retries, and the token continuations, which do not run on the queue.

### Listens

A query that is listened to has a **target** in `LocalStore`, whose data (resume
token, version) are persisted, a **view** in `SyncEngine`, and a remote target id
in `RemoteStore`. The view is first filled from the cache. While some target
exists and nothing keeps the network off, the watch stream is open; requests to
add and remove targets go up, and messages about targets and documents come
down. A `WatchChangeAggregator` collects them per target until a snapshot says
that all targets are at one version; then the whole is applied as one remote
event: documents and target data in one transaction, then the views. Messages
for a target count only when every request for it has been answered. An
existence filter that disagrees with the cache, even after a bloom filter was
tried, resets the target without its token.

A document that a view holds and a current target does not is **in limbo**: it
is looked up by a target of its own, at most
`maxConcurrentLimboResolutions` at a time, the others wait in a queue. When it
turns out deleted, or is refused, it leaves the view. `OnlineStateTracker`
decides when to show views as from the cache although their stream has not said
so.

### Tabs

All tabs read and write one IndexedDB. One of them holds the **primary lease**
and is the only one to talk to the backend. Each tab refreshes its metadata and
looks at the lease every four seconds, takes it when it has lapsed, or its owner
is marked as a zombie, and no other active tab is better placed (network first,
then visibility), and tells its `SyncEngine` when it wins or loses it. The
transactions that only the primary may run check the lease themselves. A write in
any tab goes into the one queue, and WebStorage events tell the others that it
is pending or acknowledged.

### Realtime Database

`PersistentConnection` keeps outstanding puts in order and sends all of them
again, after the listens, on each new connection. Transactions run on the local
view of the data, are queued per location, and are sent with the hash of what
they replace once no other transaction above or below is on the wire. A change of
the data reruns the transactions at, above and below it; a `set()` aborts those
below. A lost connection aborts transactions that were sent, because nobody can
say whether they were applied.

### The upload

An `UploadTask` sends a small blob in one request. For a larger one it creates
an upload session, then sends chunks, each twice as long as the last, from where
it believes the server to be. Every request needs an Auth and an App Check token
first (`_resolveToken`). The application may `pause()`, `resume()` and
`cancel()` at any time; a request or a timer is interrupted, a token fetch is
not: its continuation looks at the state it finds. After a request that was
cancelled or failed the task no longer knows what the server kept, so it asks
for the status before it sends anything. Each request is a `NetworkRequest` with
a retry loop of its own (`backoff.ts`) that knows nothing of the upload.

There is no queue here: the methods run to their end on the event loop, and what
interleaves are the calls, timers, token fetches, connections, and the handlers
of promises that have settled but not yet run.

## 2. The modules

| Module | Models |
|---|---|
| `PersistentStream` | the methods of the stream as operators on a record: the stream has no life of its own, RemoteStore calls it inside its handlers. It declares no variables. |
| `WritePipeline` | the write path: RemoteStore and its stream, LocalStore's queues, SyncEngine's callbacks, the credentials provider, the AsyncQueue and the backend. One action per handler. |
| `ReliableWrites` | what the path promises: per-user ordered, at-least-once delivery under the author's credentials, and promises settled with the backend's verdict. `WritePipeline` is shown to implement it. |
| `MCWritePipeline` | the model-checking instance; the `.cfg` files give its constants. |
| `WatchChangeAggregator` | the aggregator's methods as operators on a record. It declares no variables. |
| `View` | the methods of `View` as operators on a record. It declares no variables. |
| `Listen` | listens: RemoteStore's watch half, OnlineStateTracker, SyncEngine's views and limbo tables, LocalStore's targets and documents, and a backend with its history. One action per handler, API call and kind of message. |
| `MCListen` | the model-checking instances of `Listen`. |
| `ListenTargetProofs` | the inductive invariant of `Listen`, and how the operators on the stream, requests, targets, limbo resolutions, views and the aggregator keep it, proved. |
| `ListenProofs` | limbo tables, answers awaited, online state, idle timer and offline views, proved for any sets of documents and queries while `enableNetwork()` meets no stream that runs. |
| `MultiTab` | several tabs over one database: lease, metadata, zombies, what SyncEngine and RemoteStore do of it for writes, and news between tabs. |
| `MCMultiTab` | the model-checking instance of `MultiTab`. |
| `MultiTabProofs` | types, the lease, the order of writes over takeovers, SyncEngine and lease, and promises, proved for any number of tabs. |
| `PersistentConnection` | the connection's methods as operators on the client record. It declares no variables. |
| `Repo` | Realtime Database writes and transactions over that connection, with a server and another client. One action per call and callback. |
| `Filtering` | what a loop that keeps some elements of an array leaves of it, in a form that the provers can expand. A helper of `Repo`, `PersistentConnection` and `Listen` that models no code of its own. |
| `MCRepo` | the model-checking instances of `Repo`. |
| `FoldTheorems` | induction along a fold, for any operator and loop invariant: proved once, instantiated by `RepoProofs`, `ListenTargetProofs` and `ListenProofs`. |
| `RepoProofs` | outcomes of transactions, outstanding puts and answers, reconnection, and what the first `set()` leaves of transactions, proved. |
| `NetworkRequest` | the methods of a Storage request and of its retry loop, as operators on a record. It declares no variables. |
| `UploadTask` | the upload over its requests and the server's side of the resumable protocol. One action per call, timer, continuation, connection event and handler. |
| `UploadProtocol` | what an upload promises its application. `UploadTask` is shown, and proved, to implement it. |
| `MCUploadTask` | the model-checking instance of the upload. |
| `UploadTaskProofs` | type, one operation at a time, the refinement of `UploadProtocol`, and where chunks are sent, proved. |
| `WritePipelineProofs` | type correctness, the network invariant, how attempts, callbacks and requests fit the pipeline, and the pipeline the queue, proved. |
| `WritePipelineDeliveryProofs` | the refinement of `ReliableWrites` and the invariants it rests on, proved. |

### State and code: the write path

| Variable | Code |
|---|---|
| `rs` | `RemoteStoreImpl` (`writePipeline`, `offlineCauses`) and `PersistentWriteStream` (`state`, `closeCount`, `stream`, timers). `rs.rpcs` is every attempt of `auth()`, with its captured generation and what the backend has not yet read. |
| `local` | IndexedDB: one queue of batch ids per user, the `documentMutations` rows, and the user whose queue `LocalStore` has open |
| `engine` | `SyncEngineImpl.currentUser`, `mutationUserCallbacks`, `pendingWritesCallbacks` |
| `creds` | the user that Auth reports; whether `tokenCounter` differs from `lastTokenId` |
| `tasks` | the tasks of the AsyncQueue that carry something: stream callbacks (with the generation they were made for) and retryable operations |
| `retryOps`, `mode` | `AsyncQueueImpl.retryableOps`; running, terminated, or `failure` set |
| `author`, `promise`, `committed`, `refused` | history: who wrote a batch, what the application was told, what the backend did |

A stream callback reads the state that it finds when the queue reaches it, so
it has to be queued in the model. An API call or a timer carries nothing that
could be stale into the queue, so it may run at any moment; this covers every
place where the queue could have it. A handler is one action with everything it
calls: `OnMutationResult` shifts the pipeline, acknowledges in LocalStore,
settles the callback, wakes the waiters and refills the pipeline, or does the
part of that which precedes a failing transaction.

Batches are numbered in the order they are written (`autoIncrement` of the
mutation store) and carry no data. Each has one `documentMutations` row.

### The environment

* The backend accepts, answers the handshake, and commits or refuses the first
  unread request. It is external to the repository and modelled from how the
  client uses it. A request read after the client left may still be committed.
* Streams break at any point; before the handshake with a permanent error too.
* An IndexedDB transaction may fail with `IndexedDbTransactionError`
  (`MaxIdbFailures` times).
* The page may close and reopen (`Restart`), also after a failure.
* `Faults` switches on two behaviours under which the code is known to break:
  `reenable` (enableNetwork() on an enabled network) and `viewRefill` (a view
  whose refresh may fail after the transaction of its operation committed).
  They are off in the passing runs so that these show what holds otherwise;
  `wp_reenable` switches on the first. The constant `Reenables` is its like for
  listens.

### State and code: listens

| Variable | Code |
|---|---|
| `remote.listens`, `nextId` | `listenTargets` with its id maps, `RemoteStoreImpl` |
| `remote.agg` | `watchChangeAggregator`: target states with their pending responses, pending documents, resets |
| `remote.stream`, `idle`, `reqs` | the watch stream, its idle timer, the requests it has sent and the backend has not read |
| `remote.orphan` | whether an earlier RPC is still heard, because the stream was set back to Initial while it ran and `closeCount` has not moved |
| `remote.online`, `failures`, `timer` | `OnlineStateTracker` |
| `remote.strays` | timers of `OnlineStateTracker` that run although it no longer knows them |
| `remote.causes` | `offlineCauses`, for the user and for a failed transaction |
| `engine.views` | `queryViewsByQuery`, each with the fields of `View` |
| `engine.refs`, `active`, `enqueued` | `limboDocumentRefs`, `activeLimboTargetsByKey` with `receivedDocument`, `enqueuedLimboResolutions` |
| `store.cache`, `keysOf`, `targets`, `last` | persisted: remote documents with their read times, target keys, target data, last snapshot version |
| `store.mem` | `targetDataByTarget`, in memory |
| `server` | external: every version of the documents, what the stream's targets have been sent, the messages in flight |

A query has no limit and documents carry no local mutations, so a view's result
is the cached documents that match. `ExecuteQuery` is `QueryEngine` with its
previous results: keys of the last synced result and documents read since
`free`, the last limbo-free snapshot version. Every handler is one action
because the AsyncQueue runs it to its end. The backend may answer a resumed
listen with the exact changes, with a reset, or with a count and possibly a bloom
filter that has false positives; it may send a departed document with contents
or without. `FaultyTransactions` names the transactions that may fail; the model
then takes the code's own path (`disableNetworkUntilRecovery`, an unlisten that
ignores the failure, a rejected target listened to again).

`EnableNetwork` may be called whenever the application likes. On a network that
is enabled the code's handler sets a running stream back to Initial
(`InhibitBackoff`) and, if something is listened to, starts another RPC with a
fresh aggregator under the same `closeCount`. The constant `Reenables` says
whether that may happen; without it the call is still made on an enabled network,
but only when the watch stream is not running. With it, the messages that the
replaced RPC has in flight are delivered to the new aggregator, before those of
its successor; the timer of `OnlineStateTracker` may be set twice; and the idle
timer stays set on a stopped stream. What is left out of it: other orders of the
two RPCs' messages, what the old RPC is sent later, its unread requests, its own
end, a backoff timer that the call overtakes, and an idle timer that fires on a
stream that does not run. The first assertion that such a call can reach is
modelled: an answer too many ends the queue (`QueueFailed`), and `Task`, which
every handler ends with, lets nothing but a restart happen after it.

### State and code: tabs

| Variable | Code |
|---|---|
| `db.lease`, `db.meta` | the stores `DbPrimaryClient` and `DbClientMetadata`, with timestamps as ages |
| `db.queue`, `db.last` | the mutation store and its last id |
| `zombies` | the `firestore_zombie_*` entries of WebStorage |
| `tab[t].isPrimary`, `network`, `visible` | fields of `IndexedDbPersistence` |
| `tab[t].engine` | `isPrimary` of `SyncEngineImpl`; RemoteStore has `IsSecondary` exactly if it is false |
| `tab[t].ops` | retryable tasks: calls of the primary state listener, and storage events |
| `tab[t].cached`, `promises` | `MutationQueue.documentKeysByBatchId`; the batches with an entry in `mutationUserCallbacks` |
| `tab[t].pipeline`, `answered` | the write pipeline and those of its batches that the backend has answered |
| `tab[t].life` | new, open, closing (`pagehide` was seen), dead, or failed: an assertion ended its queue. `pagehide` also ends `SharedClientState` (`shared_client_state.ts:622, 741-747`): only open tabs hear news (`Listens`) |
| `committed`, `untold` | history: what the backend has, and acknowledgements that died with their tab |

IndexedDB serializes the transactions of all tabs, so one transaction is one
action; the in-memory steps around it are in the same task. The lease ages in
steps of one refresh interval, and every age past the limit is one value. A tab
in `Throttled` may miss any number of refreshes, the others none. A tab that is
closing goes on as primary until its shutdown runs, and goes on telling; events
of other tabs no longer reach it, and those in its queue are put aside
(`earlyEvents`).

### State and code: Realtime Database

| Variable | Code |
|---|---|
| `c.phase`, `first`, `reasons`, `online` | `realtime_`, `establishConnectionTimer_` and `connected_`; `firstConnection_`; `interruptReasons_`; `OnlineMonitor` |
| `c.puts`, `up` | `outstandingPuts_`; requests on the wire |
| `c.cache`, `complete`, `writes` | the server cache of `SyncTree` and its `WriteTree` |
| `c.queue`, `txn` | `transactionQueueTree_`, each `Transaction` with status, path, write id, retry count, abort reason and what its promise was told |
| `server`, `applied` | external: the data, the listen, messages to the client; history of what was applied |

A location is the set of leaves below it, so "above" and "below" are set
inclusion. Data says, for each leaf, who wrote it last and which transactions
have run on top of that, which is what the properties tell apart; the hash of data
is the data.

### State and code: the upload

| Variable | Code |
|---|---|
| `task.state` ... `task.sleep` | the fields of `UploadTask`: `_state`, `_uploadUrl` (`url`: it is known), `_needToFetchStatus`, `_needToFetchMetadata`, `_transferred`, `_chunkMultiplier`, `sleepTime` |
| `task.timer`, `task.request` | `pendingTimeout` and `_request` are set |
| `task.fetches` | the pending continuations of `_resolveToken`, with what their callback will request; a chunk's offset and length are fixed when the fetch starts |
| `task.requests` | the `NetworkRequest`s that are under way or whose handlers have not run; `_request` is the last one. Its record holds the closure of `backoff.ts`: `cancelState`, `hitTimeout`, `stopped` |
| `task.promise` | `_resolve` is unset, and which function was called |
| `server`, `asked`, `pauses` | the session on the server; whether `cancel()` returned true; a bound |

Nothing in the model limits the two sequences to one element: that they never
hold more than one between them is `OneOperation`. A promise that settles and
its handlers are two steps (`Answer`, then `Handle`), because a call of the
application may run in between; so `cancel()` may find a request that has been
answered already.

Lengths are in units of the smallest chunk (256 KiB). The server takes a chunk
only at the offset it has reached, finishes the object with the last one, and
answers `stored` and `final`; a request that is cut short, aborted or answered
with a 5xx status may have been processed, and a chunk in any part
(`Leftovers`): when its connection fails, too. The field `resent` of a request is
history: whether `backoff.ts` has repeated it.

## 3. What is checked

Runs `wp_*` are of `MCWritePipeline`, `listen*` of `MCListen`, `tabs` of
`MCMultiTab`, `rtdb*` of `MCRepo`, `upload*` of `MCUploadTask`. Deadlock is not
checked: the application may stop calling, a terminated or failed queue does
nothing more, tabs end, and an upload that has ended is over.

| Run | Bounds | Result |
|---|---|---|
| `wp_faults` | 1 user, pipeline 2, 3 batches, 1 break, 1 network toggle, 2 IndexedDB failures; fair | passes (506,988 states) |
| `wp_users` | 2 users, pipeline 1, 2 batches, 2 token events, 1 restart, 1 waiter | passes (405,131 states) |
| `wp_reenable` | `reenable`, 1 batch, 1 toggle | violates `QueueNeverFails` |
| `wp_lost_sign_in` | 2 users, 1 token event, 1 IndexedDB failure | violates `EngineFollowsAuth` |
| `listen` | 2 documents, 1 query, 1 limbo resolution at a time, 2 versions, 2 events; releasing a target and reading the snapshot version may fail | passes (1,481,417 states) |
| `listen_faults` | 1 document, 2 queries, 2 versions, 1 event; applying a remote event may fail too; fair | passes (370,514 states) |
| `listen_reenable` | `Reenables`, 1 document, 1 query, 1 event | violates `QueueNeverFails` |
| `tabs` | 2 tabs, one of them throttled and the other in front, 2 batches, 1 event, tasks that look at the lease run while no retryable task waits; fair | passes (767,695 states) |
| `rtdb` | transactions at a location and above it, one of which aborts itself on changed data, 1 set, 1 change by another client, 2 events, 2 retries; fair | passes (692,316 states) |
| `rtdb_lost_update` | the same two transactions, 1 change, no event | violates `NoLostUpdate` |
| `rtdb_forgotten` | 1 transaction, 2 sets, 1 change | violates `NoneForgotten` |
| `upload` | blobs of 1 and 4 chunks, chunks of at most 2 (`MaxChunk = 4` is not reached), 2 pauses, `MaxSleep = 1`, fair | passes (44,274 states) |

Why these bounds: the pipeline limit matters when several requests are in flight
and the queue is longer than it (`wp_faults`: pipeline 2, three batches). Two
IndexedDB failures let a retry fail again, a refill fail after a recovery, or two
operations fail at once. A break, a toggle and two recoveries give several
generations of the stream with callbacks of each still queued. Two token events
let a user come back, or change again before the first change was handled, and a
restart meets every stage of that (`wp_users`). A restart after a break or a
failure, or a break while users change, is more than five minutes of TLC allow;
the safety properties of these runs are proved for any number of each (section 4).
The passing runs do not combine user changes with IndexedDB failures: that
combination breaks (`wp_lost_sign_in`, and section 5).

For listens: two documents may be in limbo together while one resolution is
allowed, so one waits; two versions let the cache and the backend disagree, a
token be stale and a filter mismatch. Queries are listened to whenever they are
not; an event is an unlisten, a lost stream, a switch, a rejected target, a
restart or a failure. Two of them let a query come back from the cache, resume,
and meet a fault while it does. Two queries over one document (`listen_faults`)
share it between targets and let one view doubt what the other has seen. Each
commit may change every document. `Reenables`, the call of `enableNetwork()` on a
stream that runs, is off in `listen` and `listen_faults`, because
`PendingResponsesMatch`, `OnlineStateFollowsStream` and `SyncedViewIsServerResult`
do not survive that call, nor does `EventuallySynced`, for which the queue must
live; `IdleOnlyWhenUnlistened` would take a second event (call, then listen,
while the idle timer is set). `listen_reenable` shows what the call does to the
queue, and section 5 the rest. `LimboTablesAgree`, `OfflineViewsAreFromCache` and
`PreviousResultsComplete` survive it: TLC finds them kept with `Reenables`,
1 document, 2 queries, 2 versions and 1 event (622,497 states), for which no run
is kept.

For tabs: a crash, closing, a switch of the network or of the visibility or a
broken stream happens once, in any tab at any moment; the throttled tab may
believe in its lease long after it was lost; two batches show order. `MaxOps`
only delays tasks that look at the lease while others wait, and news may queue
up beyond it.

For the Realtime Database: one transaction above the other is the smallest case
of queues that interact; the change by another client makes a hash stale; an
event is an interrupt, the browser going offline, a kill, a lost connection or a
denied put. `MaxSets = 1` because two sets give `rtdb_forgotten`.

For the upload: a blob of one unit takes the one-shot path, one of four takes
three chunks (1, 2, 1), so the multiplier grows, reaches its limit and is reset,
and a chunk may stop part-way. With `MaxSleep = 1` a chunk may fail twice with a
retryable status (the sleep grows 0, 1, 2) before the third failure is final;
retries of the other requests are unlimited, as are breaks. Two pauses
let a resumed upload be paused again while the first interruption is under way.

Properties, and what each would catch:

* `StreamFollowsPipeline` - a write that waits because nobody started the
  stream, or a stream that runs while the network is off.
* `OneStreamOneRecovery` - two streams, or callbacks of two streams, that the
  dispatcher would let through; two recovery operations at once; a network
  switched on while one of them is still failing.
* `PipelineMirrorsQueue` - a batch skipped, repeated or left out by a refill,
  a retry, a restart or a change of user.
* `ResultsCorrelate` - answers and requests out of step with the pipeline.
* `IdleOnlyWhenDrained` - a stream with work closed as idle.
* `PromisesBacked` - a promise that nothing will settle.
* `MutationRowsBacked` - index rows without a batch, or a batch without its row.
* `EngineFollowsAuth` - a sign-in that was dropped.
* `SentAsAuthor` - a batch sent under another user's token.
* `QueueNeverFails` - an assertion or TypeError inside a task.
* `WaitersHeardInTime` - waitForPendingWrites() resolved too early.
* `DeliversReliably` - refinement of `ReliableWrites`.
* `WritesAreDecided` - liveness, below.
* `SyncedViewIsServerResult` - a view shown as up to date that misses a document,
  keeps one, or mixes versions, after any resume, reset, filter or limbo lookup.
* `LimboTablesAgree` - a limbo document that is looked up twice, by nobody, or
  after nobody doubts it; a free slot next to a queue.
* `PendingResponsesMatch` - messages of an earlier watch taken for the present
  one, or a target deaf for ever. Of listens, `QueueNeverFails` asks that the
  count never falls below zero, for rejected targets too (`listen_reenable`).
* `OnlineStateFollowsStream`, `OfflineViewsAreFromCache` - a timer of an old state
  that fires into a new one; views that look up to date while offline.
* `IdleOnlyWhenUnlistened` - a stream closed under a listened query.
* `PreviousResultsComplete` - a query that is run from its previous results and
  misses a document that the cache has.
* `EventuallySynced` - a view that stays stale for ever; liveness, below.
* `NoWriteLost` - a write dropped, or sent out of order, when tabs take over from
  each other.
* `LeaseNotStolen` - two tabs that take the lease from each other.
* `EngineFollowsLease` - a tab whose SyncEngine was never told that it won or
  lost.
* `PromisesHeard` - a promise in an open tab for a write that another
  acknowledged, with neither the write in the queue nor news on the way.
* `EventuallyOnePrimary` - nobody, or two, in charge for ever; a queue that
  nobody drains.
* `OutcomesAreTrue` - a transaction reported as aborted that was applied, or the
  reverse, or applied twice.
* `NoLostUpdateAtOneLocation` - a transaction that overwrites what its function
  never saw. `NoLostUpdate` asks it of nested locations too, and fails.
* `PutsAwaitAnswers` - puts left out, doubled or reordered by a reconnection.
* `NeverStuck` - a client that should reconnect and has no timer.
* `NoneForgotten` - a transaction in no queue and on no wire whose promise is
  open, or a pending write without an owner.
* `EventuallySettled` - a transaction that never ends; liveness, below.
* `OneOperation` - an upload that sends twice, or that is active and waits for
  nothing, after some order of calls and continuations.
* `ChunksStartInStep` - a chunk whose first attempt is made at an offset that the
  server has passed or not reached, after any failure, lost response,
  interruption or timeout. `ChunksMeetServer` asks it of every attempt, and fails.
* `KeepsProtocol` - refinement of `UploadProtocol`: success without the finished
  object, a cancellation nobody asked for, data sent while paused, a promise
  settled twice or at the wrong moment.
* `ComesToRest` - an upload that hangs; liveness, below.

Every property has a mutant: a small defect of one mapped definition under which
TLC finds the property violated. The mutants are the definitions marked
"Mutant" above the definition they change.

### Fairness

`WritesAreDecided` holds under `FairSpec`: weak fairness of the stream callbacks
and of the retryable operations at the head of the AsyncQueue (tasks of a
promise chain are run by the event loop), of the backoff timer and the retry
timer (both are scheduled with `setTimeout` when they are set), of the token
fetches and of the backend. Nothing makes the application call anything,
a stream break, a batch be refused, or the idle timer fire. The property assumes
that from some time on the application leaves the network enabled and does not
terminate; breaks and failures are finite, because they are bounded.

`ComesToRest` holds under weak fairness of the upload's timer, of the token
fetches, and of the retry timers, the global timeouts, the connections and the
handlers of requests. Browsers run timers and promise handlers; a connection
ends because `connection.send()` always settles; a token fetch is an HTTP
request that does as well. None is assumed of the application or of progress
events, and nothing makes the server answer well: the retry limits do it.

The `FairSpec` of `Listen`, `MultiTab` and `Repo` states weak fairness with the
condition that enables an action written out, which TLC evaluates faster than
`ENABLED`. It asks: messages that wait on an open connection are handled, and
tasks of the AsyncQueue run (the event loop); a started connection opens, a set
timer fires; the backend reads requests, answers them and, for listens, sends a
snapshot when something changed; the recovery's probe succeeds in the end (it is
retried without limit). Nothing is asked of the application or of faults.

* `EventuallySynced`: if the network stays usable and the query listened to.
* `EventuallyOnePrimary`: if a tab whose timers are on time stays open with the
  network on. Time passes (`Tick`), and a tab that has begun its shutdown ends.
  A throttled tab is not enough: a tab without network that is on time takes
  every lapsed lease and gives it back, so each of them may be without it
  whenever it looks.
* `EventuallySettled`: if from some time on nothing keeps the client offline.

## 4. What is proved

`tlapm` checks every proof to the last leaf; the assumptions are those on the
constants in `WritePipeline` (numbers are naturals, `NumUsers` and `MaxPending`
positive, `Faults` within `FaultKinds`).

* `PipelineTyped` (`WritePipelineProofs`): `Spec => []TypeOK`. `TypeOK` is
  inductive. One lemma per operator on the RemoteStore record says that it keeps
  the record in `RemoteStoreType`; one per action closes the induction.
* `NetworkStaysSound` (`WritePipelineProofs`):
  `Spec => []OneStreamOneRecovery`, if `"reenable"` is not among the faults.
* `StreamAlwaysFollows`: `Spec => []StreamFollowsPipeline`, under the same
  assumption, from the former.

Why the invariant has four parts. `StreamFollowsPipeline` is not inductive:
`BackoffElapsed` starts the stream, so the backoff timer must be running only in
state Backoff (`Sound`). A stream callback that closes the stream or opens it
would restart one that had been stopped, so a callback that the dispatcher lets
through must belong to a stream that is under way (`CallbacksSound`), and so
must every attempt that can still call back (`Sound`, about `rs.rpcs`). A
recovery removes `IndexedDbFailed` and enables the network; if a second one were
still queued or retrying, it would later enable a network that is already
enabled, which resets the state of a running stream. So at most one recovery
exists, and while it does the network is off (`OneRecovery`). The proof follows
the handlers: lemmas say how each operator changes the four parts, that
disabling the network establishes them from any state, that `Fill` preserves
them, and that a callback through the dispatcher finds its stream under way.
The assumption cannot be dropped: `wp_reenable` is the counterexample.

`WritePipelineProofs`, if neither `"reenable"` nor `"viewRefill"` is among
the faults, for every number of users and writes and every
`MAX_PENDING_WRITES`:

* `PipelineStaysLinked`: `Spec => []PipelineInv`, the inductive invariant.
* `PipelineAlwaysMirrors`: `Spec => []PipelineMirrorsQueue`.
* `ResultsAlwaysCorrelate`: `Spec => []ResultsCorrelate`.
* `IdleAlwaysDrained`: `Spec => []IdleOnlyWhenDrained`.

A response does not say which write it is for, so that answers meet their
writes depends on everything the stream has done before. `PipelineInv` says how
far an attempt has got by the phase of its RPC, and which callbacks may still be
queued for it: before `open` none, after it one handshake, then answers only,
and after an error nothing more of that attempt (`Linked`). The answers that are
queued, then the requests that the backend has not read, are the pipeline. The
pipeline is the front of the queue of the current user (`Mirrors`), which is in
order of writing (`QueuesInOrder`), and the idle timer runs only where nothing
is left (`Drained`). The lemmas follow one handler at a time: taking the first
callback off shifts both sides of `Linked` together; a refill appends the same
batches to the pipeline and to the requests; starting or closing a stream makes
every queued callback a stale one.

`WritePipelineDeliveryProofs`, under the same assumption and `Calm`: there is one
user, or IndexedDB does not fail.

* `DeliveryKept`: `Spec => [](Settled /\ DeliveryInv)`, the inductive invariant
  on top of the three before (`Settled`).
* `AlwaysDeliversReliably`: `Spec => DeliversReliably`, that is, `WritePipeline`
  implements `ReliableWrites`.
* `AlwaysSentAsAuthor`, `PromisesAlwaysBacked`, `QueueStaysAlive`,
  `RowsAlwaysBacked`, `EngineAlwaysFollowsAuth`: the invariants `SentAsAuthor`,
  `PromisesBacked`, `QueueNeverFails`, `MutationRowsBacked` and
  `EngineFollowsAuth`.
* `WaitersAlwaysHeardInTime`: `Spec => WaitersHeardInTime`, an action property.

`DeliveryInv` has five parts. SyncEngine and LocalStore agree on the user, and a
user whom only the provider knows has an event in the queue (`FollowsUser`). No
task has failed (`NeverFails`): a decision is always about the first batch of
the current user's queue, which is where `PipelineMirrorsQueue` and
`ResultsCorrelate` come in. The `Books`: no batch leaves a queue undecided, a
task that reports a decision reports one that the backend made (`Truthful`), a
waiter waits for the last batch that it covers. Whatever an attempt still has to
read is in order for its user, with nothing undecided left out before it
(`RequestsInOrder`); this holds of attempts that the client has given up as
well, since the backend may go on reading those. And a live attempt has the
token of the current user, or will be closed by an event that is queued before
any callback of it (`TokensHeld`). Each step is sorted into what it does to the
books (`Accounted`): nothing, a write, a decision of the backend, a decision
recorded, or a new session; each of these is a step of `ReliableWrites` or leaves
its variables alone.

`Calm` cannot be dropped. Between a decision of the backend and the retry of the
transaction that records it, the user may change; then the batch is removed
under the wrong user (section 5), and a sign-in may be lost (`wp_lost_sign_in`).
With one user any number of transactions may fail; with any number of users
none does. Both halves are what the runs check: `wp_faults` the first, `wp_users`
the second.

Proving this found an error of the model, which TLC then confirmed with three
batches and a pipeline of three: a write that arrived while the end of an RPC was
still queued as a callback was sent on that dead RPC, where the backend could
commit it before earlier ones. The code drops it
(`firestore/src/platform/browser/webchannel_connection.ts:303`), and so does
`Sent` of `PersistentStream` now.

`UploadTaskProofs`, from the assumptions in `UploadTask` (sizes are positive,
`MaxChunk` at least 2, limits are naturals):

* `UploadTyped`: `Spec => []TypeOK`.
* `OneOperationAlways`: `Spec => []OneOperation`.
* `ProtocolKept`: `Spec => KeepsProtocol`, that is, `UploadTask` implements
  `UploadProtocol`.
* `ChunksAlwaysStartInStep`: `Spec => []ChunksStartInStep`. It says nothing of the
  attempts that `backoff.ts` repeats: those break `ChunksMeetServer` (section 5).

The first three follow from one invariant, `Inv`. Counting (`Single`) is not
inductive alone: that `_start` finds nothing under way depends on every handler
first clearing what it handled, so the lemmas about `Start` and
`CompleteTransitions` speak of an `Idle` task, and one lemma per kind of
operation says that taking it away leaves one. `Fits` says that what is
outstanding suits the task's shape and stays within the blob. Success is claimed
by a handler that runs after the server answered, so `Honest` carries the
answer's truth from one to the other. A refinement needs to know that a paused
task transfers nothing, which is `OneOperation` again, and that a canceled one
was asked, which is a conjunct of its own. Each action has a lemma that proves
the invariant and the abstract step together.

`ChunksAlwaysStartInStep` adds `InStep`: the task's count of what was transferred is
the server's, unless a chunk is under way or the task knows that it has to ask.
It needs `Stoppable`, that an aborted request is not sent again, because what
it left on the server is not known.

`MultiTabProofs`, for every number of tabs, writes and events, from the
assumptions in `MultiTab` (bounds are naturals, `NoLease` is not a lease):

* `TabsTyped`: `Spec => []TypeOK`.
* `LeaseNeverStolen`: `Spec => LeaseNotStolen`, an action property: every step
  that changes a valid lease is a step of its owner.
* `NoWriteEverLost`: `Spec => []NoWriteLost`.
* `EngineAlwaysFollows`: `Spec => []EngineFollowsLease`.
* `PromisesAlwaysHeard`: `Spec => []PromisesHeard`.

`NoWriteLost` is not inductive: a tab that lost the lease may go on sending for a
while, next to the new primary. `Delivered` adds, for each tab that was ever
open, that its pipeline has no gap below its batches but for those committed,
and that it was answered in order (`InOrder`). Then whatever a stale tab sends
next was either committed before or is the next one, and a batch only leaves the
queue when it was answered. Neither fact needs the lease: the order holds even
while two tabs believe in theirs, which is what the code relies on between an
expiry and the next refresh. `EngineFollowsLease` is inductive, by lemmas on the
last change of the primary state in a sequence of tasks: appending news keeps
it, appending a change makes it the last, and taking the head off moves a change
into effect. `PromisesHeard` needs that a tab knows the documents of the writes
it promised (`Heard`), since news of a batch that a tab does not know are
ignored. It speaks of open tabs: one that has seen `pagehide` is told nothing. Each invariant has one step per action; the operators' lemmas come
first.

`RepoProofs`, for every tree of finitely many locations, every set of
transactions, any of them conditional, every `MAX_TRANSACTION_RETRIES` and
every bound; `FinitelyManyPaths` is the only assumption that it uses:

* `RepoInvariant`: `Spec => []RepoInv`, the inductive invariant.
* `OutcomesTrue`: `Spec => []OutcomesAreTrue`.
* `PutsAwait`: `Spec => []PutsAwaitAnswers`.
* `NeverRestsUnconnected`: `Spec => []NeverStuck`.
* `FirstSetForgetsNone`: `Spec => [](count.sets <= 1 => NoneForgotten)`. The run
  `rtdb_forgotten` shows what the second `set()` does.

`OutcomesAreTrue` speaks of what the server did, which the client cannot see.
`RepoInv` sorts the transactions by what the client may conclude: no put for it
was applied or is under way (`Unsent`), one is outstanding (`OnTheWire`), its
put was cancelled by a disconnect and nobody knows what came of it (`Doubtful`),
or it was `Committed`. An unsent transaction was not applied and no request
carries it, not even one of an old connection that the server may still read
(`Counted`); a transaction on the wire is in exactly one put (`Exclusive`).
So `repoRerunTransactionQueue` may abort or send what is unsent, and only that.
On an open connection the answers that are under way and then the requests
that the server has not read are the outstanding puts, and an answer says what
was applied (`Awaited`). Without a connection no put that is still outstanding
has been sent, except plain `set()` calls (`Unqueued`), which
is what `cancelSentTransactions_` is for: without it `restoreState_` would send a
transaction twice.

`NoneForgotten` relates the queue, the outstanding puts and the pending writes,
which the other theorems leave open, and has an invariant of its own
(`Remembered`): the pending writes are those of transactions and of outstanding
sets, each its own (`Numbered`); a transaction with a pending write is in the
queue, and one without is not run yet or over (`Staged`). `Staged` also says
which transactions may be marked: none before the first `set()`, whose abort
therefore finds no transaction that is marked already, and this is the case in
which the code drops some. Between callbacks none is waiting to be aborted; in
the middle of one, those that the rerun at or above them will reach (`Covering`
puts what a put carries at or below its location, where the rerun begins).

One callback runs several loops over the queue, each of which calls others,
and in the middle of `cancelSentTransactions_` some puts are cancelled and
others not. The invariant is therefore stated of a client record and of a
*ground*: what the loops leave alone (the server, the messages, the connection
at the start of the callback), and which puts remain to be cancelled. One
lemma per operator says that it keeps `ClientInv` on any ground, and one per
action changes the ground. The loops are folds of the community modules;
`FoldTheorems` proves the induction along a fold once, with the operator and the
loop invariant as constants, and `RepoProofs` instantiates it for each loop
(sending, settling, rerunning, aborting, cancelling, restoring, filtering). A
fold over `Filter` is within the provers' reach this way, where `SelectSeq`,
which is recursive, is not.

`ListenProofs`, on the lemmas of `ListenTargetProofs`, if `Reenables` is false,
for every finite set of documents and of queries, every `MaxLimbo`, every backend
and every failing transaction. The other assumptions are those in `Listen`: `FinitelyMany` (`Cardinality` counts them),
`KeysAreNotQueries` (a target is of a document or of a query; `TargetData` has a
purpose for it), `LimboLimit` (`MaxLimbo` is a natural number, and may be 0),
and `NullIsNoDocument` (the value that stands for "no update" is no document):

* `ListenInvariant`: `Spec => []ListenInv`, the inductive invariant.
* `LimboAgreement`: `Spec => []LimboTablesAgree`.
* `PendingCounted`: `Spec => []PendingResponsesMatch`.
* `OnlineStateSound`: `Spec => []OnlineStateFollowsStream`.
* `IdleStreamUnneeded`: `Spec => []IdleOnlyWhenUnlistened`.
* `OfflineIsFromCache`: `Spec => []OfflineViewsAreFromCache`.

That `Reenables` is false means: `enableNetwork()` never meets a watch stream
that runs. For the counts, the online state and the idle timer the assumption
cannot be dropped, and `listen_reenable` is the counterexample: the count of
responses and the requests part for good. The limbo tables and the offline views
do not depend on it as far as TLC can tell (section 3); their proofs do, since
`ListenInv` has the conversation with the backend as a part.

The two that say most are not inductive. `PendingResponsesMatch` speaks of the
targets that the aggregator knows, but `recordPendingTargetRequest` counts from
what a target had before, so a target that is unknown must have nothing under
way if it is listened to again; and the count only stays right if the backend
answers every request, which it does for one to remove only if it has the target
when it reads that. `Conversation` therefore follows each target through the
requests that are not read: the requests to remove come after one to add, or the
backend has the target (`Alternates`), and a target that is listened to will be
the backend's when all is read (`EndsAccepted`). A rejected target is past this
from the moment that its error is sent, because the backend does not answer a
request to remove what it has rejected. `LimboTablesAgree` relates RemoteStore's
listens to SyncEngine's tables, but the listens also hold the targets of
queries: `Watched` says that they are the active resolutions and the views, no
more. The references are exactly the doubts of the views (`RefsMatch`).
`OnlineStateFollowsStream` and the idle timer need that the stream's state, its
requests and the aggregator go together (`RemoteShape`), and
`OfflineViewsAreFromCache` that a view is shown as synced only while it is
current (`ViewSound`).

`ListenInv` describes the client between two tasks of the queue, and inside a
task it does not hold: the references are updated before the targets, one
rejected limbo resolution takes several steps, and when a transaction fails the
network is torn down in the middle. What the operators keep is weaker,
`ClientInv` with the keys that are *exempt* because they are about to lose their
place, and the lemmas carry along which part is broken: whether the queue of
limbo documents still has to be pumped (`Pumped`), which targets are listened to
beside those that the tables know, and which keys have no reference any more. A
task ends with nothing left over. Two cases took most of the work. A global
snapshot with mismatched existence filters unlistens and relistens targets while
their answers are still counted. And removing the limbo target of a document
that no view doubts any more pumps the queue, which may start a resolution, all
within the loop that runs through the removed documents. The loops are folds;
`FoldTheorems` is instantiated for each. `Ascending` and `Filter` replace
`SetToSortSeq` and `SelectSeq` in the model, whose definitions are recursive or
sort and cannot be expanded.

Only model-checked:

* of listens, everything with `Reenables`, and
  `SyncedViewIsServerResult`, `PreviousResultsComplete` and `EventuallySynced`.
  Of the three properties the first two compare the documents of a view with the
  backend's history at some version, that is, they depend on the contents of the
  messages under way, on resume tokens and on which changes an existence filter
  counts; the theorems above are about control, whatever the messages contain;
* of the Realtime Database, `NoLostUpdateAtOneLocation`, which depends on the data;
* the write path outside `Calm`;
* liveness (`WritesAreDecided` and its like), which is out of the prover's reach,
  as is `ENABLED`. No module declares a recursive operator.

## 5. What the runs found

Details and quotations are under `findings` in `PROJECT.json`.

1. `enableNetwork()` is documented as idempotent, but on an enabled network it
   opens a second stream under the generation of the first (`wp_reenable`).
2. The same call gives the watch stream a second RPC with a fresh aggregator: the
   answers of both are counted against one, and one too many ends the queue
   (`listen_reenable`).
3. A sign-in whose first attempt hits a failing transaction is lost, and the
   network stays off until the next token event (`wp_lost_sign_in`).
4. A transaction above one that is on the wire is sent with an output computed
   before another client's write and with a hash computed after it, so the write
   is replaced unseen (`rtdb_lost_update`).
5. A transaction on the wire that two `set()` calls have overtaken is forgotten:
   if its put fails, its promise stays open and its local write is never taken
   back (`rtdb_forgotten`).

The models show more disagreements that no run is kept for; the constants
reproduce them:

* A failure while refreshing views after a write was acknowledged makes the
  retry acknowledge a batch that is gone: `QueueNeverFails` with
  `Faults = {"viewRefill"}`, 1 batch, 1 break, 1 IndexedDB failure.
* An acknowledgement retried after a change of user cleans up under the wrong
  user: `MutationRowsBacked` with 2 users, 1 batch, 1 token event, 1 IndexedDB
  failure.
* `waitForPendingWrites()` of a user with an empty queue may wait for a batch of
  another: `WaitersAwaitOwnWrites` with 2 users, 1 batch, 1 token event,
  1 waiter.
* A tab whose lease lapsed unnoticed may take it back and acknowledge a batch
  that the interim primary has already removed; `removeMutationBatch` then fails
  an assertion and its queue ends: `QueueNeverFails` of `MultiTab` under `Spec`
  with 1 batch, `MaxOps = 2`, 2 events.
* `raiseWatchSnapshot` stores resume tokens in memory before the transaction that
  should persist the event (`remote/remote_store.ts:735`). If that transaction
  fails, the listens resume past changes that were never applied, and a view may
  be shown as up to date without them: `SyncedViewIsServerResult` of `Listen`
  with `FaultyTransactions = {"Apply remote event"}`. For this reason
  `listen_faults`, which lets it fail, leaves that property to `listen`.
* After `enableNetwork()` on a running watch stream, messages of the old RPC make
  the client online while its stream is only starting, and with two queries over
  one document a CURRENT of the old RPC counts for the new one and a view is shown
  as up to date that is not: `OnlineStateFollowsStream` and
  `SyncedViewIsServerResult` with `Reenables`, 1 document, 2 queries, 1 event.
* A chunk whose connection fails is sent again at its old offset, without the query
  that "each retry should be preceded by" (`storage/src/task.ts:319`):
  `NetworkRequest` consults `retry` only for statuses of a server that was reached
  (`implementation/request.ts:129`). `ChunksMeetServer` of `UploadTask` with a
  blob of 2 units, `MaxChunk = 2` and no pause.
* `UploadTask.cancel()` is documented for paused tasks too, but is only accepted
  while the task is running or pausing (`storage/src/task.ts:677`).

## 6. What is not modelled

In the write path: the token invalidation that `Healthy` decides, the lengths of
delays (any delay is possible), stream tokens, commit versions and transform
results (data), logging, memory persistence (the IndexedDB queue is the one
with failures), the emulator, first-party and server-app credentials. A failure
to persist a write rejects its promise and leaves no trace, so it is not a step.
The primary lease and other tabs are a component of their own.

In the upload: observers (they are told what the state is and change nothing),
deletion of the app, which cancels requests from outside, the emulator, the
contents of the blob and metadata, and rejected tokens. `_resolveToken` has no
handler for the last: an upload whose token fetch fails stays active with
nothing outstanding, so `OneOperation` and `ComesToRest` hold for tokens that
arrive, as is said at the hazard in `PROJECT.json`.

In listens: limits and orders, local mutations in views (the write path has
them), bundles, indexes, aggregates, garbage collection of targets, backoff
lengths, a change of credentials (for the watch stream it is a restart of the
network, which is there), what other tabs do to a query's target, and the rest of
what two RPCs under one `closeCount` may do to each other (section 2).

In tabs: queries of other tabs and the takeover of their listens, several users,
`forceOwnership`, a mix of synchronization settings, and clocks that disagree.
The write stream is reduced to what was sent and what was answered; the stream
itself is `WritePipeline`.

In the Realtime Database: credentials and their refresh (a token that arrives
after the connection was closed, `PersistentConnection.ts:838`), `get()`,
`onDisconnect()`, `update()`, priorities, queries and several listens,
transactions that do not apply locally, and calls from inside callbacks
(re-entrancy, where `Repo.ts` has an assertion of its own). The handshake
below `onReady` is one step.

Outside these parts: everything with status `not_modelled` in `PROJECT.json`,
with the reason there. Most of the repository's lines are of that kind: bundled
tools, generated code, type packages, pure conversions and expression
evaluators, demo applications and request builders.

## 7. Plan

Done: the write path with its abstract specification, implemented by proof; the
upload with its abstract specification, implemented by proof; listens with limbo
resolution, with six theorems; tabs, with five; the Realtime Database's connection
and transactions, with five.

1. **More proofs**: `SyncedViewIsServerResult` for a backend whose existence filters
   count exactly, `NoLostUpdateAtOneLocation`.
2. **Installations and App Check**: two tabs over one entry.
3. **Firestore transactions** against a versioned backend.
4. **Pure algorithms** against reference definitions: exponential backoff, the
   rolling sequence-number buffer of the garbage collector, target id
   generators.
5. **Tabs and listens together**: targets of other tabs and their takeover.

Bounds for each will be as here: the smallest instance in which every hazard
listed for the component can happen, with one more of whatever repeats.
