------------------------------- MODULE Listen -------------------------------
(***************************************************************************)
(* Real-time listens of one Firestore client, packages/firestore/src:      *)
(* RemoteStore's watch stream (remote/remote_store.ts), the online state   *)
(* (remote/online_state_tracker.ts), SyncEngine's views and limbo          *)
(* resolution (core/sync_engine_impl.ts, core/view.ts) and LocalStore's    *)
(* targets and remote documents (local/local_store_impl.ts), against a     *)
(* backend that keeps every version of the documents.                      *)
(*                                                                         *)
(* Every step of the client is one task of the AsyncQueue, so a handler    *)
(* runs to its end before the next one starts, transactions included.  The *)
(* parts share one record c = [remote, engine, store]; a method is an      *)
(* operator that takes such a record and returns the one it leaves.        *)
(*                                                                         *)
(* An SDK target is named by its query, or by the key a limbo resolution   *)
(* is about; remote target ids are fresh numbers, as in the code.  The two *)
(* maps between them and listenTargets have the same domain between tasks  *)
(* and are one function here.  Versions count the backend's writes; a      *)
(* resume token is the version it stands for, 0 when empty.  Documents     *)
(* have no local mutations (see WritePipeline) and queries no limit.       *)
(***************************************************************************)
EXTENDS Integers, Sequences, FiniteSets, Folds, SequencesExt, Filtering

CONSTANTS
  Keys, Queries,   \* document keys and listened queries
  Contents,        \* contents of documents
  Matches,         \* query -> the contents it accepts
  Absent,          \* contents of a document that does not exist
  Unknown,         \* contents of a cached document the client knows nothing of
  NoUpdate,        \* null
  InitialDocs,     \* what the backend holds at version 1
  MaxLimbo,        \* maxConcurrentLimboResolutions
  FaultyTransactions,  \* the transactions that may fail
  Reenables,       \* whether enableNetwork() may meet a stream that runs
  MaxVersion,      \* bound: versions of the backend
  MaxEvents        \* bound: unlistens, drops, switches, faults, restarts...

ASSUME FinitelyMany == IsFiniteSet(Keys) /\ IsFiniteSet(Queries)
ASSUME KeysAreNotQueries == Keys \cap Queries = {}
ASSUME LimboLimit == MaxLimbo \in Nat
ASSUME ReenablesAssumption == Reenables \in BOOLEAN
ASSUME NullIsNoDocument == NoUpdate # [data |-> Absent, ver |-> 0]

VARIABLES
  remote,   \* RemoteStore and its watch stream
  engine,   \* SyncEngine
  store,    \* LocalStore: the persisted cache, and target data in memory
  server,   \* the backend, and the messages in flight to the client
  events    \* how many of the bounded events have happened

vars == <<remote, engine, store, server, events>>

W == INSTANCE WatchChangeAggregator
V == INSTANCE View

Client == [remote |-> remote, engine |-> engine, store |-> store]

Become(c) == remote' = c.remote /\ engine' = c.engine /\ store' = c.store

(* The assertion of recordTargetResponse has ended the AsyncQueue.         *)
QueueFailed ==
  /\ remote.stream = "Open"
  /\ \E t \in DOMAIN remote.agg.states : remote.agg.states[t].pending < 0

(* A task of the queue.                                                    *)
Task(c) == ~QueueFailed /\ Become(c)

Bounded == events < MaxEvents /\ events' = events + 1

Without(f, x) == [y \in DOMAIN f \ {x} |-> f[y]]
With(f, x, v) == [y \in DOMAIN f \cup {x} |-> IF y = x THEN v ELSE f[y]]

(* A set of target ids in order (SetToSortSeq, without a sort).            *)
Ascending(S) ==
  CHOOSE f \in [1..Cardinality(S) -> S] :
    \A i, j \in 1..Cardinality(S) : i < j => f[i] < f[j]

-----------------------------------------------------------------------------
(* SyncEngine's answers, which the aggregator asks for.                    *)

IsLimbo(sdk) == sdk \in Keys

(* syncEngineGetRemoteKeysForTarget                                        *)
RemoteKeysForTarget(c, sdk) ==
  IF IsLimbo(sdk)
    THEN IF sdk \in DOMAIN c.engine.active /\ c.engine.active[sdk]
           THEN {sdk} ELSE {}
    ELSE IF sdk \in DOMAIN c.engine.views
           THEN c.engine.views[sdk].synced ELSE {}

MetadataProvider(c) ==
  [t \in DOMAIN c.remote.listens |->
     LET sdk == c.remote.listens[t].sdk
     IN  [keys   |-> RemoteKeysForTarget(c, sdk),
          single |-> IF IsLimbo(sdk) THEN {sdk} ELSE {}]]

-----------------------------------------------------------------------------
(* OnlineStateTracker                                                      *)

MaxWatchStreamFailures == 1

(* Mutant: going offline leaves the views as they are.                     *)
OfflineUnnoticed(c, onlineState) == c

(* syncEngineApplyOnlineStateChange                                        *)
ApplyOnlineState(c, onlineState) ==
  [c EXCEPT !.engine.views = [q \in DOMAIN @ |->
                                V!ApplyOnlineStateChange(@[q], onlineState)]]

SetAndBroadcast(c, onlineState) ==
  IF c.remote.online = onlineState THEN c
  ELSE ApplyOnlineState([c EXCEPT !.remote.online = onlineState], onlineState)

(* Mutant: the timer survives a change of state.                           *)
SetOnlineKeepsTimer(c, onlineState) ==
  SetAndBroadcast([c EXCEPT !.remote.failures = 0], onlineState)

SetOnline(c, onlineState) ==
  SetAndBroadcast([c EXCEPT !.remote.timer = FALSE, !.remote.failures = 0],
                  onlineState)

(* A timer that runs already is forgotten: nothing can cancel it any more. *)
HandleWatchStreamStart(c) ==
  IF c.remote.failures # 0 THEN c
  ELSE [SetAndBroadcast(c, "Unknown") EXCEPT
          !.remote.timer = TRUE,
          !.remote.strays = IF c.remote.timer THEN @ + 1 ELSE @]

(* Failures are only compared with 0 and with the limit: more are the same.*)
HandleWatchStreamFailure(c) ==
  IF c.remote.online = "Online" THEN SetAndBroadcast(c, "Unknown")
  ELSE LET failures == IF c.remote.failures < MaxWatchStreamFailures
                         THEN c.remote.failures + 1 ELSE c.remote.failures
           counted  == [c EXCEPT !.remote.failures = failures]
       IN  IF failures < MaxWatchStreamFailures THEN counted
           ELSE SetAndBroadcast([counted EXCEPT !.remote.timer = FALSE],
                                "Offline")

-----------------------------------------------------------------------------
(* RemoteStore: listens and the life of the watch stream.  The states of   *)
(* PersistentStream are reduced to Stopped (Initial, Error), Starting      *)
(* (Starting, Backoff) and Open; PersistentStream has them all.  A stream  *)
(* that is set back to Initial while it runs leaves an orphan: an RPC that *)
(* is still heard, for the close count is what it was.                     *)

CanUseNetwork(c) == c.remote.causes = {}

ShouldStartWatchStream(c) ==
  /\ CanUseNetwork(c)
  /\ c.remote.stream = "Stopped"
  /\ DOMAIN c.remote.listens # {}

StartWatchStream(c) ==
  HandleWatchStreamStart(
    [c EXCEPT !.remote.agg = W!FreshAggregator, !.remote.stream = "Starting"])

(* Mutant: a request does not mark the stream as used.                     *)
SendWhileIdle(c, request) == [c EXCEPT !.remote.reqs = Append(@, request)]

(* sendRequest() also stops the idle timer.                                *)
SendRequest(c, request) ==
  [c EXCEPT !.remote.reqs = Append(@, request), !.remote.idle = FALSE]

RecordPending(c, t) ==
  [c EXCEPT !.remote.agg = W!RecordPendingTargetRequest(@, t)]

(* sendWatchRequest, with the version the request resumes from: the resume *)
(* token or, without one, the read time that toTarget() sends.             *)
SendWatchRequest(c, t, from) ==
  LET sdk == c.remote.listens[t].sdk
  IN  SendRequest(RecordPending(c, t),
        [op |-> "add", t |-> t, what |-> sdk, from |-> from,
         expected |-> Cardinality(RemoteKeysForTarget(c, sdk))])

ResumeFrom(target) == IF target.token > 0 THEN target.token ELSE target.ver

(* Mutant: the answer to an unwatch request is not waited for.             *)
UnwatchUncounted(c, t) == SendRequest(c, [op |-> "remove", t |-> t])

SendUnwatchRequest(c, t) ==
  SendRequest(RecordPending(c, t), [op |-> "remove", t |-> t])

IsListened(c, sdk) ==
  \E t \in DOMAIN c.remote.listens : c.remote.listens[t].sdk = sdk

RemoteTargetId(c, sdk) ==
  CHOOSE t \in DOMAIN c.remote.listens : c.remote.listens[t].sdk = sdk

RemoteStoreListen(c, sdk, target) ==
  LET t      == c.remote.nextId
      mapped == [c EXCEPT !.remote.nextId = @ + 1,
                          !.remote.listens = With(@, t,
                            [sdk |-> sdk, token |-> target.token,
                             ver |-> target.ver])]
  IN  IF IsListened(c, sdk) THEN c
      ELSE IF ShouldStartWatchStream(mapped) THEN StartWatchStream(mapped)
      ELSE IF mapped.remote.stream = "Open"
        THEN SendWatchRequest(mapped, t, ResumeFrom(target))
      ELSE mapped

RemoteStoreUnlisten(c, sdk) ==
  LET t       == RemoteTargetId(c, sdk)
      dropped == [c EXCEPT !.remote.listens = Without(@, t)]
      told    == IF c.remote.stream = "Open"
                   THEN SendUnwatchRequest(dropped, t) ELSE dropped
  IN  IF DOMAIN told.remote.listens # {} THEN told
      ELSE IF told.remote.stream = "Open"
        THEN [told EXCEPT !.remote.idle = TRUE]
      ELSE IF CanUseNetwork(told) THEN SetOnline(told, "Unknown")
      ELSE told

(* onWatchStreamOpen: every target is requested, in an order of its own.   *)
SendAllWatchRequests(c) ==
  FoldLeft(LAMBDA d, t : SendWatchRequest(d, t, ResumeFrom(d.remote.listens[t])),
           c, Ascending(DOMAIN c.remote.listens))

(* stop() and cleanUpWatchStreamState.  A stream that runs is closed: its  *)
(* messages that arrive later are dropped by its close count.              *)
StreamClosed(c) ==
  LET stopped == c.remote.stream = "Stopped"
  IN  [c EXCEPT !.remote.stream = "Stopped", !.remote.agg = NoUpdate,
                !.remote.reqs = << >>,
                !.remote.idle = stopped /\ @, !.remote.orphan = stopped /\ @]

(* inhibitBackoff(), which sets a stream that runs back to Initial, too.   *)
InhibitBackoff(c) ==
  [c EXCEPT !.remote.stream = "Stopped", !.remote.reqs = << >>,
            !.remote.orphan = @ \/ c.remote.stream # "Stopped"]

(* The watch stream's onNetworkStatusChange handler.                       *)
EnableWatch(c) ==
  LET inhibited == InhibitBackoff(c)
  IN  IF ShouldStartWatchStream(inhibited) THEN StartWatchStream(inhibited)
      ELSE SetOnline(inhibited, "Unknown")

EnableNetworkInternal(c) == IF CanUseNetwork(c) THEN EnableWatch(c) ELSE c

(* disableNetworkUntilRecovery, after a transaction failed.                *)
DisableNetworkUntilRecovery(c) ==
  SetOnline([StreamClosed(c) EXCEPT !.remote.causes = @ \cup {"IndexedDbFailed"}],
            "Offline")

-----------------------------------------------------------------------------
(* SyncEngine: limbo resolution.                                           *)

(* pumpEnqueuedLimboResolutions                                            *)
StartLimboResolution(c, key) ==
  RemoteStoreListen(
    [c EXCEPT !.engine.enqueued = Tail(@),
              !.engine.active = With(@, key, FALSE)],
    key, [token |-> 0, ver |-> 0])

Pump(c) ==
  LET waiting == c.engine.enqueued
      free    == MaxLimbo - Cardinality(DOMAIN c.engine.active)
      started == IF free < Len(waiting) THEN free ELSE Len(waiting)
  IN  FoldLeft(StartLimboResolution, c, SubSeq(waiting, 1, started))

TrackLimbo(c, q, key) ==
  LET noted == [c EXCEPT !.engine.refs = @ \cup {<<key, q>>}]
  IN  IF key \in DOMAIN c.engine.active \cup Range(c.engine.enqueued)
        THEN noted
        ELSE Pump([noted EXCEPT !.engine.enqueued = Append(@, key)])

IsReferenced(c, key) == \E q \in Queries : <<key, q>> \in c.engine.refs

(* Mutant: a freed place is not given to the next document.                *)
RemoveWithoutPump(c, key) ==
  LET dequeued == [c EXCEPT !.engine.enqueued = Filter(@, Keys \ {key})]
  IN  IF key \notin DOMAIN c.engine.active THEN dequeued
      ELSE [RemoteStoreUnlisten(dequeued, key)
              EXCEPT !.engine.active = Without(@, key)]

(* removeLimboTarget                                                       *)
RemoveLimboTarget(c, key) ==
  LET dequeued == [c EXCEPT !.engine.enqueued = Filter(@, Keys \ {key})]
  IN  IF key \notin DOMAIN c.engine.active THEN dequeued
      ELSE Pump([RemoteStoreUnlisten(dequeued, key)
                   EXCEPT !.engine.active = Without(@, key)])

Untrack(c, q, key) ==
  LET forgotten == [c EXCEPT !.engine.refs = @ \ {<<key, q>>}]
  IN  IF IsReferenced(forgotten, key) THEN forgotten
      ELSE RemoveLimboTarget(forgotten, key)

(* updateTrackedLimbos: removals first, as View lists them.                *)
UpdateTrackedLimbos(c, q, added, removed) ==
  FoldLeft(LAMBDA d, k : TrackLimbo(d, q, k),
           FoldLeft(LAMBDA d, k : Untrack(d, q, k), c, SetToSeq(removed)),
           SetToSeq(added))

(* Mutant: the limbo resolutions of a removed query go on.                 *)
CleanupForgetsLimbos(c, q) ==
  [c EXCEPT !.engine.views = Without(@, q), !.engine.refs = @ \ (Keys \X {q})]

(* removeAndCleanupTarget                                                  *)
RemoveAndCleanupTarget(c, q) ==
  LET keys  == {k \in Keys : <<k, q>> \in c.engine.refs}
      freed == [c EXCEPT !.engine.views = Without(@, q),
                         !.engine.refs = @ \ (Keys \X {q})]
  IN  FoldLeft(LAMBDA d, k : IF IsReferenced(d, k) THEN d
                             ELSE RemoveLimboTarget(d, k),
               freed, SetToSeq(keys))

-----------------------------------------------------------------------------
(* LocalStore                                                              *)

NoTargetData == [token |-> 0, ver |-> 0, free |-> 0]

(* The documents a full scan of the cache finds for a query.               *)
FullScan(st, q) ==
  [k \in Keys |-> IF st.cache[k].data \in Matches[q]
                    THEN st.cache[k].data ELSE Absent]

(* localStoreExecuteQuery with usePreviousResults: the remote keys, and    *)
(* what was read after the last snapshot with no document in limbo.        *)
TargetDataOf(st, q) == IF q \in DOMAIN st.mem THEN st.mem[q] ELSE st.targets[q]

(* Mutant: only the remote keys are read again.                            *)
RemoteKeysOnly(st, q) ==
  LET free == TargetDataOf(st, q).free
  IN  [k \in Keys |-> IF free = 0 \/ k \in st.keysOf[q]
                        THEN FullScan(st, q)[k] ELSE Absent]

ExecuteQuery(st, q) ==
  LET free == TargetDataOf(st, q).free
  IN  [k \in Keys |->
         IF free = 0 \/ k \in st.keysOf[q] \/ st.cache[k].rt > free
           THEN FullScan(st, q)[k] ELSE Absent]

(* populateDocumentChangeBuffer: the keys whose cached document changes.   *)
AcceptedUpdates(st, docs) ==
  {k \in Keys : /\ docs[k] # NoUpdate
                /\ \/ docs[k] = W!NoDocument(0)
                   \/ st.cache[k].data = Unknown
                   \/ docs[k].ver > st.cache[k].ver}

UnknownDocument == [data |-> Unknown, ver |-> 0, rt |-> 0]

Cached(doc, version) ==
  IF doc = W!NoDocument(0) THEN UnknownDocument
  ELSE [data |-> doc.data, ver |-> doc.ver, rt |-> version]

(* A target change of one query: the new target data in memory.            *)
NewTargetData(old, event, q) ==
  IF q \in event.mismatches THEN NoTargetData
  ELSE IF event.changes[q].token > 0
    THEN [old EXCEPT !.token = event.changes[q].token, !.ver = event.version]
  ELSE old

(* shouldPersistTargetData, without the rule that a token older than five  *)
(* minutes is persisted anyway.                                            *)
ShouldPersist(old, change) ==
  \/ old.token = 0
  \/ change.added \cup change.modified \cup change.removed # {}

(* localStoreApplyRemoteEventToLocalCache: one transaction.                *)
ApplyToLocalCache(st, event) ==
  LET told    == DOMAIN event.changes \cap DOMAIN st.mem
      changed == AcceptedUpdates(st, event.docs)
      mem     == [q \in DOMAIN st.mem |->
                    IF q \in told THEN NewTargetData(st.mem[q], event, q)
                    ELSE st.mem[q]]
  IN  [st EXCEPT
         !.cache   = [k \in Keys |->
                        IF k \in changed THEN Cached(event.docs[k], event.version)
                        ELSE @[k]],
         !.keysOf  = [q \in Queries |->
                        IF q \in told
                          THEN (@[q] \ event.changes[q].removed)
                                 \cup event.changes[q].added
                          ELSE @[q]],
         !.mem     = mem,
         !.targets = [q \in Queries |->
                        IF q \in told /\ ShouldPersist(st.mem[q], event.changes[q])
                          THEN mem[q] ELSE @[q]],
         !.last    = IF event.version = 0 THEN @ ELSE event.version]

-----------------------------------------------------------------------------
(* SyncEngine: remote events.                                              *)

(* How a change to a limbo target marks its document received.             *)
ReceivedDocument(was, change) ==
  (was \/ change.added # {}) /\ change.removed = {}

NoteLimboDocuments(c, event) ==
  [c EXCEPT !.engine.active = [k \in DOMAIN @ |->
     IF k \in DOMAIN event.changes
       THEN ReceivedDocument(@[k], event.changes[k]) ELSE @[k]]]

(* applyDocChanges and localStoreNotifyLocalViewChanges for one view.      *)
RefreshView(c, q, changed, event) ==
  LET old  == c.engine.views[q]
      docs == V!ComputeDocChanges(old, Matches[q], changed)
      r    == V!ApplyChanges(old, docs, TRUE,
                IF q \in DOMAIN event.changes THEN event.changes[q] ELSE NoUpdate,
                q \in event.mismatches)
      free == r.raised /\ r.view.state = "Synced"
      seen == [c EXCEPT !.engine.views[q] = r.view,
                        !.store.mem[q].free = IF free THEN c.store.mem[q].ver
                                              ELSE @]
  IN  UpdateTrackedLimbos(seen, q, r.added, r.removed)

(* syncEngineApplyRemoteEvent, when its transaction succeeds.              *)
ApplyRemoteEvent(c, event) ==
  LET stored  == [c EXCEPT !.store = ApplyToLocalCache(@, event)]
      changed == [k \in AcceptedUpdates(c.store, event.docs) |->
                    event.docs[k].data]
  IN  FoldLeft(LAMBDA d, q : RefreshView(d, q, changed, event),
               NoteLimboDocuments(stored, event),
               SetToSeq(DOMAIN c.engine.views))

(* raiseWatchSnapshot: tokens in memory first, targets to reset next, the  *)
(* event last; only targets that are still mapped are in the event.        *)
MoveTokens(c, event) ==
  [c EXCEPT !.remote.listens = [t \in DOMAIN @ |->
     IF t \in event.mismatches THEN [@[t] EXCEPT !.token = 0]
     ELSE IF t \in DOMAIN event.changes /\ event.changes[t].token > 0
       THEN [@[t] EXCEPT !.token = event.changes[t].token, !.ver = event.version]
     ELSE @[t]]]

RewatchTarget(c, t) == SendWatchRequest(SendUnwatchRequest(c, t), t, 0)

RewatchMismatches(c, event) ==
  FoldLeft(RewatchTarget, c,
           Ascending(event.mismatches \cap DOMAIN c.remote.listens))

(* toSdkRemoteEvent                                                        *)
ToSdkRemoteEvent(c, event) ==
  LET Sdk(t)    == c.remote.listens[t].sdk
      mapped(S) == {Sdk(t) : t \in S \cap DOMAIN c.remote.listens}
  IN  [event EXCEPT
         !.changes    = [sdk \in mapped(DOMAIN event.changes) |->
                           event.changes[RemoteTargetId(c, sdk)]],
         !.mismatches = mapped(event.mismatches)]

(* What raiseWatchSnapshot leaves before it applies the event, and the     *)
(* event.                                                                  *)
RaiseWatchSnapshot(c, version) ==
  LET r     == W!CreateRemoteEvent(c.remote.agg, MetadataProvider(c), version)
      moved == MoveTokens([c EXCEPT !.remote.agg = r.left], r.event)
  IN  [client |-> RewatchMismatches(moved, r.event),
       event  |-> ToSdkRemoteEvent(moved, r.event)]

(* localStoreReleaseTarget: the target's data as memory has it are         *)
(* persisted, unless the transaction fails.                                *)
ReleaseTarget(c, q, persisted) ==
  [c EXCEPT !.store.targets[q] = IF persisted THEN c.store.mem[q] ELSE @,
            !.store.mem = Without(@, q)]

(* handleTargetError, and what syncEngineRejectListen does of it.          *)
DropRejectedTarget(c, t) ==
  [c EXCEPT !.remote.listens = Without(@, t),
            !.remote.agg = W!RemoveTarget(@, t)]

(* The document of a rejected limbo target is taken to be deleted.         *)
LimboRejected(key) ==
  [version |-> 0, changes |-> << >>, mismatches |-> {},
   docs |-> [k \in Keys |-> IF k = key THEN W!NoDocument(0) ELSE NoUpdate]]

RejectLimbo(c, key) ==
  Pump([ApplyRemoteEvent(c, LimboRejected(key))
          EXCEPT !.engine.active = Without(@, key)])

RejectQuery(c, q, persisted) ==
  RemoveAndCleanupTarget(ReleaseTarget(c, q, persisted), q)

-----------------------------------------------------------------------------
(* The backend (not part of this repository): hist[v] is what it holds at  *)
(* version v; accepted maps the targets of the stream to what was sent.    *)

Now == Len(server.hist)

Holds(docs, what) ==
  {k \in Keys : IF IsLimbo(what) THEN k = what /\ docs[k].data # Absent
                ELSE docs[k].data \in Matches[what]}

DocumentMessage(t, key, doc, member) ==
  [kind |-> "DOCUMENT", t |-> t, key |-> key, doc |-> doc, member |-> member]

TargetMessage(kind, t, token) == [kind |-> kind, t |-> t, token |-> token]

Each(S, Message(_)) == [i \in DOMAIN SetToSeq(S) |-> Message(SetToSeq(S)[i])]

(* What changed for a target since a version; a document that left it may  *)
(* come with its contents or without.                                      *)
Updates(t, what, since) ==
  LET docs == server.hist[Now]
      Found(k) == DocumentMessage(t, k, docs[k], TRUE)
  IN  Each({k \in Holds(docs, what) : docs[k].ver > since}, Found)

Departures(t, what, since, bare) ==
  LET docs == server.hist[Now]
      Left(k) == DocumentMessage(t, k, IF bare THEN NoUpdate ELSE docs[k], FALSE)
  IN  Each(Holds(server.hist[since], what) \ Holds(docs, what), Left)

ExistenceFilter(t, what, might) ==
  [kind |-> "FILTER", t |-> t, might |-> might,
   count |-> Cardinality(Holds(server.hist[Now], what))]

(* The ways to answer a watch request: everything, for one that does not   *)
(* resume; else a RESET with everything, the exact changes, or the updates *)
(* and the number of documents, with or without a bloom filter.  A client  *)
(* that expects another number than the backend knows is always told it.   *)
Answers(request) ==
  LET t     == request.t
      what  == request.what
      since == request.from
      all   == Updates(t, what, 0)
      result == Holds(server.hist[Now], what)
      FilterOf(might) == <<ExistenceFilter(t, what, might)>>
      exact == {Departures(t, what, since, bare) : bare \in BOOLEAN}
      trusted == request.expected = Cardinality(Holds(server.hist[since], what))
      counted == {NoUpdate} \cup {result \cup extra : extra \in {{}, Keys}}
  IN  IF since = 0 THEN {all}
      ELSE {<<TargetMessage("RESET", t, 0)>> \o all}
           \cup {Updates(t, what, since) \o gone \o
                   (IF trusted THEN << >> ELSE FilterOf(NoUpdate)) : gone \in exact}
           \cup {Updates(t, what, since) \o FilterOf(might) : might \in counted}

(* Without an open stream there is nothing, but for what an orphan has in  *)
(* flight: it comes before what its successor is sent (other orders, and   *)
(* what the orphan is sent later, are left out).                           *)
OpenServer(c, s) ==
  IF c.remote.stream = "Open" THEN s
  ELSE [s EXCEPT !.accepted = << >>, !.due = FALSE,
                 !.resps = IF c.remote.orphan THEN @ ELSE << >>]

(* Somebody commits a write to one or several documents.                   *)
ServerCommits ==
  LET docs == server.hist[Now]
  IN  /\ Now < MaxVersion
      /\ \E data \in [Keys -> Contents \cup {Absent}] :
           /\ \E k \in Keys : docs[k].data # data[k]
           /\ server' = [server EXCEPT !.hist = Append(@,
                [k \in Keys |-> IF docs[k].data = data[k] THEN docs[k]
                                ELSE [data |-> data[k], ver |-> Now + 1]])]
      /\ UNCHANGED <<remote, engine, store, events>>

NextRequest == Head(remote.reqs)

RequestArrived == remote.stream = "Open" /\ remote.reqs # << >>

ServerAccepts ==
  /\ RequestArrived
  /\ NextRequest.op = "add"
  /\ \E body \in Answers(NextRequest) :
       server' = [server EXCEPT
         !.accepted = With(@, NextRequest.t,
                           [what |-> NextRequest.what, upto |-> Now]),
         !.resps = @ \o <<TargetMessage("ADD", NextRequest.t, 0)>> \o body
                     \o <<TargetMessage("CURRENT", NextRequest.t, Now)>>,
         !.due = TRUE]
  /\ remote' = [remote EXCEPT !.reqs = Tail(@)]
  /\ UNCHANGED <<engine, store, events>>

ServerRemoves ==
  /\ RequestArrived
  /\ NextRequest.op = "remove"
  /\ server' = IF NextRequest.t \in DOMAIN server.accepted
                 THEN [server EXCEPT
                   !.accepted = Without(@, NextRequest.t),
                   !.resps = Append(@, TargetMessage("REMOVE", NextRequest.t, 0))]
                 ELSE server
  /\ remote' = [remote EXCEPT !.reqs = Tail(@)]
  /\ UNCHANGED <<engine, store, events>>

ServerRejects(t) ==
  /\ Bounded
  /\ t \in DOMAIN server.accepted
  /\ server' = [server EXCEPT
                  !.accepted = Without(@, t),
                  !.resps = Append(@, TargetMessage("ERROR", t, 0))]
  /\ UNCHANGED <<remote, engine, store>>

SnapshotIsDue ==
  /\ server.accepted # << >>
  /\ server.due \/ \E t \in DOMAIN server.accepted : server.accepted[t].upto < Now

(* All targets of the stream are brought to one version, and the client is *)
(* told so.                                                                *)
ServerSnapshot ==
  LET targets == Ascending(DOMAIN server.accepted)
      Changes(t, bare) ==
        LET a == server.accepted[t]
        IN  Updates(t, a.what, a.upto) \o Departures(t, a.what, a.upto, bare)
  IN  /\ SnapshotIsDue
      /\ \E bare \in BOOLEAN :
           server' = [server EXCEPT
             !.accepted = [t \in DOMAIN @ |-> [@[t] EXCEPT !.upto = Now]],
             !.resps = @ \o FoldLeft(LAMBDA ms, t : ms \o Changes(t, bare),
                                     << >>, targets)
                         \o <<[kind |-> "SNAPSHOT", version |-> Now]>>,
             !.due = FALSE]
      /\ UNCHANGED <<remote, engine, store, events>>

-----------------------------------------------------------------------------
(* The application.                                                        *)

Finish(c) == Task(c) /\ server' = OpenServer(c, server)

(* syncEngineListen for a query that nobody listens to.                    *)
Listen(q) ==
  LET cached  == store.targets[q]
      newer   == \/ q \notin DOMAIN store.mem
                 \/ cached.ver > store.mem[q].ver
      st      == [store EXCEPT !.mem = IF newer THEN With(@, q, cached) ELSE @]
      fresh   == V!NewView(st.keysOf[q])
      told    == [token |-> cached.token, current |-> FALSE,
                  added |-> {}, modified |-> {}, removed |-> {}]
      view    == V!ApplyChanges(fresh, ExecuteQuery(st, q), TRUE, told, FALSE).view
  IN  /\ q \notin DOMAIN engine.views
      /\ Finish(RemoteStoreListen(
           [Client EXCEPT !.store = st, !.engine.views = With(@, q, view)],
           q, cached))
      /\ UNCHANGED events

(* syncEngineUnlisten                                                      *)
Unlisten(q) ==
  /\ q \in DOMAIN engine.views
  /\ Bounded
  /\ \E persisted \in {TRUE} \cup
          (IF "Release target" \in FaultyTransactions THEN {FALSE} ELSE {}) :
       Finish(RemoveAndCleanupTarget(
         RemoteStoreUnlisten(ReleaseTarget(Client, q, persisted), q), q))

(* remoteStoreDisableNetwork                                               *)
DisableNetwork ==
  /\ Bounded
  /\ Finish(SetOnline([StreamClosed(Client) EXCEPT
                         !.remote.causes = @ \cup {"UserDisabled"}], "Offline"))

(* remoteStoreEnableNetwork, also when nobody disabled it.                 *)
EnableNetwork ==
  /\ \/ "UserDisabled" \in remote.causes /\ UNCHANGED events
     \/ /\ "UserDisabled" \notin remote.causes /\ Bounded
        /\ Reenables \/ remote.stream = "Stopped"
  /\ Finish(EnableNetworkInternal(
       [Client EXCEPT !.remote.causes = @ \ {"UserDisabled"}]))

(* restartNetwork, after a change of connectivity; a change of credentials *)
(* does the same to the watch stream.                                      *)
RestartNetwork ==
  /\ Bounded
  /\ Finish(EnableNetworkInternal(SetOnline(StreamClosed(Client), "Unknown")))

-----------------------------------------------------------------------------
(* The watch stream's callbacks, and the timers.                           *)

OnWatchStreamOpen ==
  /\ remote.stream = "Starting"
  /\ Task(SendAllWatchRequests([Client EXCEPT !.remote.stream = "Open"]))
  /\ UNCHANGED <<server, events>>

OnWatchStreamConnected ==
  /\ remote.stream = "Open"
  /\ remote.online # "Online"
  /\ Task(SetOnline(Client, "Online"))
  /\ UNCHANGED <<server, events>>

(* onWatchStreamClose, for an error.                                       *)
OnWatchStreamClose ==
  LET closed == StreamClosed(Client)
  IN  /\ remote.stream # "Stopped"
      /\ Bounded
      /\ Finish(IF ShouldStartWatchStream(closed)
                  THEN StartWatchStream(HandleWatchStreamFailure(closed))
                  ELSE SetOnline(closed, "Unknown"))

(* The idle timer closes the stream gracefully.                            *)
IdleTimeout ==
  /\ remote.stream = "Open" /\ remote.idle
  /\ Finish(SetOnline(StreamClosed(Client), "Unknown"))
  /\ UNCHANGED events

(* A timer that fires takes itself for the one that is known.              *)
OnlineStateTimeout ==
  /\ \E strays \in (IF remote.timer THEN {remote.strays} ELSE {})
          \cup (IF remote.strays = 0 THEN {}
                ELSE {remote.strays - 1 + IF remote.timer THEN 1 ELSE 0}) :
       Task(SetAndBroadcast(
         [Client EXCEPT !.remote.timer = FALSE, !.remote.strays = strays],
         "Offline"))
  /\ UNCHANGED <<server, events>>

(* The probe of disableNetworkUntilRecovery is retried until it succeeds.  *)
RecoverNetwork ==
  /\ "IndexedDbFailed" \in remote.causes
  /\ Finish(EnableNetworkInternal(
       [Client EXCEPT !.remote.causes = @ \ {"IndexedDbFailed"}]))
  /\ UNCHANGED events

(* The process dies and starts again: what is persisted is left.           *)
Restart ==
  /\ Bounded
  /\ remote' = [listens |-> << >>, agg |-> NoUpdate, stream |-> "Stopped",
                orphan |-> FALSE, idle |-> FALSE, reqs |-> << >>,
                nextId |-> remote.nextId,
                online |-> "Unknown", failures |-> 0, timer |-> FALSE,
                strays |-> 0, causes |-> {}]
  /\ engine' = [views |-> << >>, active |-> << >>, enqueued |-> << >>, refs |-> {}]
  /\ store' = [store EXCEPT !.mem = << >>]
  /\ server' = [server EXCEPT !.accepted = << >>, !.resps = << >>, !.due = FALSE]

-----------------------------------------------------------------------------
(* onWatchStreamChange: the next message of the stream.                    *)

Message == Head(server.resps)

(* An orphan is heard while the next stream starts, too.                   *)
MessageArrived ==
  /\ \/ remote.stream = "Open"
     \/ remote.stream = "Starting" /\ remote.orphan
  /\ server.resps # << >>

Receives(kind) == MessageArrived /\ Message.kind = kind

(* A message says that the backend is reachable.                           *)
Reached == SetOnline(Client, "Online")

Consumed == [server EXCEPT !.resps = Tail(@)]

FinishMessage(c) == Task(c) /\ server' = OpenServer(c, Consumed)

(* A message that only the aggregator keeps.                               *)
Aggregate(agg) ==
  /\ FinishMessage([Reached EXCEPT !.remote.agg = agg])
  /\ UNCHANGED events

OnDocumentChange ==
  /\ Receives("DOCUMENT")
  /\ Aggregate(W!HandleDocumentChange(remote.agg, MetadataProvider(Client), Message))

OnTargetAdded ==
  /\ Receives("ADD")
  /\ Aggregate(W!HandleAdded(remote.agg, Message.t, Message.token))

OnTargetRemoved ==
  /\ Receives("REMOVE")
  /\ Aggregate(W!HandleRemoved(remote.agg, Message.t))

OnTargetCurrent ==
  /\ Receives("CURRENT")
  /\ Aggregate(W!HandleCurrent(remote.agg, MetadataProvider(Client),
                               Message.t, Message.token))

OnTargetReset ==
  /\ Receives("RESET")
  /\ Aggregate(W!HandleReset(remote.agg, MetadataProvider(Client), Message.t))

OnExistenceFilter ==
  /\ Receives("FILTER")
  /\ Aggregate(W!HandleExistenceFilter(remote.agg, MetadataProvider(Client), Message))

Fails(transaction) ==
  transaction \in FaultyTransactions /\ Bounded

(* A NO_CHANGE for all targets, with a snapshot version and a token.       *)
OnSnapshot ==
  LET told   == [Reached EXCEPT !.remote.agg =
                   W!HandleNoChange(@, MetadataProvider(Client), Message.version)]
      raised == RaiseWatchSnapshot(told, Message.version)
  IN  /\ Receives("SNAPSHOT")
      /\ \/ /\ Fails("Get last remote snapshot version")
            /\ FinishMessage(DisableNetworkUntilRecovery(told))
         \/ /\ Message.version >= store.last
            /\ Fails("Apply remote event")
            /\ FinishMessage(DisableNetworkUntilRecovery(raised.client))
         \/ /\ FinishMessage(
                 IF Message.version < store.last THEN told
                 ELSE ApplyRemoteEvent(raised.client, raised.event))
            /\ UNCHANGED events

(* A target that the backend removed with a cause.  What a failure leaves  *)
(* is listened to again, and rejected again, after the recovery.           *)
OnTargetError ==
  LET t   == Message.t
      sdk == remote.listens[t].sdk
  IN  /\ Receives("ERROR")
      /\ \/ /\ t \notin DOMAIN remote.listens
            /\ Aggregate(W!RemoveTarget(remote.agg, t))
         \/ /\ t \in DOMAIN remote.listens /\ IsLimbo(sdk)
            /\ \/ /\ "Apply remote event" \in FaultyTransactions
                  /\ FinishMessage(DisableNetworkUntilRecovery(Reached))
               \/ FinishMessage(DropRejectedTarget(RejectLimbo(Reached, sdk), t))
            /\ UNCHANGED events
         \/ /\ t \in DOMAIN remote.listens /\ ~IsLimbo(sdk)
            /\ \E persisted \in {TRUE} \cup
                    (IF "Release target" \in FaultyTransactions THEN {FALSE} ELSE {}) :
                 FinishMessage(
                   DropRejectedTarget(RejectQuery(Reached, sdk, persisted), t))
            /\ UNCHANGED events

-----------------------------------------------------------------------------
Init ==
  /\ remote = [listens |-> << >>, agg |-> NoUpdate, stream |-> "Stopped",
               orphan |-> FALSE, idle |-> FALSE, reqs |-> << >>, nextId |-> 1,
               online |-> "Unknown", failures |-> 0, timer |-> FALSE,
               strays |-> 0, causes |-> {}]
  /\ engine = [views |-> << >>, active |-> << >>, enqueued |-> << >>, refs |-> {}]
  /\ store = [cache |-> [k \in Keys |-> UnknownDocument],
              keysOf |-> [q \in Queries |-> {}],
              targets |-> [q \in Queries |-> NoTargetData],
              mem |-> << >>, last |-> 0]
  /\ server = [hist |-> <<[k \in Keys |-> [data |-> InitialDocs[k], ver |-> 1]]>>,
               accepted |-> << >>, resps |-> << >>, due |-> FALSE]
  /\ events = 0

Application ==
  \/ \E q \in Queries : Listen(q) \/ Unlisten(q)
  \/ DisableNetwork \/ EnableNetwork \/ RestartNetwork \/ Restart

Stream ==
  \/ OnWatchStreamOpen \/ OnWatchStreamConnected \/ OnWatchStreamClose
  \/ IdleTimeout \/ OnlineStateTimeout \/ RecoverNetwork

WatchChange ==
  \/ OnDocumentChange \/ OnTargetAdded \/ OnTargetRemoved \/ OnTargetCurrent
  \/ OnTargetReset \/ OnExistenceFilter \/ OnSnapshot \/ OnTargetError

Backend ==
  \/ ServerCommits \/ ServerAccepts \/ ServerRemoves \/ ServerSnapshot
  \/ \E t \in DOMAIN server.accepted : ServerRejects(t)

Next == Application \/ Stream \/ WatchChange \/ Backend

Spec == Init /\ [][Next]_vars

-----------------------------------------------------------------------------
Versions == 0..Len(server.hist)

DocumentsInCache ==
  [data : Contents \cup {Absent, Unknown}, ver : Versions, rt : Versions]

TargetDatas == [token : Versions, ver : Versions, free : Versions]

(* The types of RemoteStore, SyncEngine and LocalStore.                    *)
TypeOK ==
  /\ \A t \in DOMAIN remote.listens :
       /\ t \in 1..(remote.nextId - 1)
       /\ remote.listens[t] \in
            [sdk : Keys \cup Queries, token : Versions, ver : Versions]
  /\ remote.stream \in {"Stopped", "Starting", "Open"}
  /\ remote.online \in {"Unknown", "Online", "Offline"}
  /\ remote.failures \in 0..MaxWatchStreamFailures
  /\ remote.idle \in BOOLEAN /\ remote.timer \in BOOLEAN
  /\ remote.causes \subseteq {"UserDisabled", "IndexedDbFailed"}
  /\ remote.orphan \in BOOLEAN /\ remote.strays \in Nat
  /\ remote.agg = NoUpdate => remote.stream = "Stopped"
  /\ DOMAIN engine.views \subseteq Queries
  /\ DOMAIN engine.views = DOMAIN store.mem
  /\ \A q \in DOMAIN engine.views :
       engine.views[q] \in
         [docs : [Keys -> Contents \cup {Absent}], synced : SUBSET Keys,
          limbo : SUBSET Keys, current : BOOLEAN, state : {"Local", "Synced"}]
  /\ DOMAIN engine.active \subseteq Keys
  /\ Range(engine.enqueued) \subseteq Keys
  /\ engine.refs \subseteq Keys \X Queries
  /\ store.cache \in [Keys -> DocumentsInCache]
  /\ store.keysOf \in [Queries -> SUBSET Keys]
  /\ store.targets \in [Queries -> TargetDatas]
  /\ store.last \in Versions

(* A view that is shown as up to date (fromCache is false) shows exactly   *)
(* what the query matched on the backend at one version, no older than its *)
(* target and no newer than the last snapshot: no document is missed,      *)
(* doubted or left over, whatever listens, drops and recoveries came       *)
(* before.                                                                 *)
ResultAt(q, v) ==
  [k \in Keys |-> LET data == server.hist[v][k].data
                  IN  IF data \in Matches[q] THEN data ELSE Absent]

SyncedViewIsServerResult ==
  \A q \in DOMAIN engine.views :
    engine.views[q].state = "Synced" =>
      \E v \in store.mem[q].ver..store.last :
        v > 0 /\ engine.views[q].docs = ResultAt(q, v)

(* Limbo resolution keeps five tables about a document in step: the views  *)
(* that doubt it, the references, the queue, the active resolutions and    *)
(* the limbo targets that RemoteStore listens to.  The number of active    *)
(* resolutions is bounded, and a document waits only when all are taken.   *)
LimboTablesAgree ==
  /\ engine.refs = UNION {engine.views[q].limbo \X {q} : q \in DOMAIN engine.views}
  /\ DOMAIN engine.active =
       {remote.listens[t].sdk : t \in DOMAIN remote.listens} \cap Keys
  /\ \A k \in DOMAIN engine.active \cup Range(engine.enqueued) :
       IsReferenced(Client, k)
  /\ DOMAIN engine.active \cap Range(engine.enqueued) = {}
  /\ IsInjective(engine.enqueued)
  /\ Cardinality(DOMAIN engine.active) <= MaxLimbo
  /\ engine.enqueued # << >> => Cardinality(DOMAIN engine.active) = MaxLimbo

(* The requests of a target that the backend has not read, and the         *)
(* messages about it that the client has not handled.                      *)
Asked(t) == {i \in DOMAIN remote.reqs : remote.reqs[i].t = t}

Responses(kinds, t) ==
  {i \in DOMAIN server.resps :
     server.resps[i].kind \in kinds /\ server.resps[i].t = t}

(* The aggregator expects as many answers for a target as requests are on  *)
(* their way or answered and unread: it neither believes messages of an    *)
(* earlier watch of the target, nor waits for an answer that never comes,  *)
(* nor counts below zero.  A target whose error is on its way is past that.*)
PendingResponsesMatch ==
  remote.stream = "Open" =>
    \A t \in DOMAIN remote.agg.states :
      \/ remote.agg.states[t].pending =
           Cardinality(Asked(t)) + Cardinality(Responses({"ADD", "REMOVE"}, t))
      \/ Responses({"ERROR"}, t) # {}

(* recordTargetResponse's hardAssert, "This indicates that the SDK         *)
(* received more target acks from the server than expected. The SDK should *)
(* not continue to operate.": it never does, for targets that are being    *)
(* rejected neither, so the queue lives on.                                *)
QueueNeverFails == ~QueueFailed

(* What the debugAsserts of OnlineStateTracker rely on: the timer only     *)
(* runs while the state is unknown and a stream was started, and a client  *)
(* that is online has an open stream, no timer and no failure to count.    *)
OnlineStateFollowsStream ==
  /\ remote.timer => remote.online = "Unknown" /\ remote.stream # "Stopped"
  /\ remote.online = "Online" =>
       remote.stream = "Open" /\ ~remote.timer /\ remote.failures = 0

(* While the client knows that it is offline, no view is shown as up to    *)
(* date.                                                                   *)
OfflineViewsAreFromCache ==
  remote.online = "Offline" =>
    \A q \in DOMAIN engine.views :
      ~engine.views[q].current /\ engine.views[q].state = "Local"

(* onWatchStreamClose's debugAssert: the idle timer never closes a stream  *)
(* that some target still needs.                                           *)
IdleOnlyWhenUnlistened == remote.idle => remote.listens = << >>

(* A query that is run from its previous results leaves out only documents *)
(* whose cached contents the backend had already replaced at the version   *)
(* that the query's target has seen (performQueryUsingRemoteKeys).         *)
PreviousResultsComplete ==
  \A q \in Queries :
    \A k \in Keys :
      FullScan(store, q)[k] # ExecuteQuery(store, q)[k] =>
        store.cache[k].ver < server.hist[TargetDataOf(store, q).ver][k].ver

(* Nothing keeps the network off.                                          *)
Usable == remote.causes = {}

(* When the network stays usable and a query stays listened to, its view   *)
(* is brought up to date, limbo documents and mismatches included.         *)
EventuallySynced ==
  \A q \in Queries :
    <>[](q \in DOMAIN engine.views /\ Usable)
      => <>[](q \in DOMAIN engine.views => engine.views[q].state = "Synced")

(* Weak fairness, with what enables a step written out: a started stream   *)
(* opens, messages arrive, the backend answers, the recovery's probe       *)
(* succeeds in the end, unless the queue has failed.  Nothing else has to  *)
(* happen.                                                                 *)
FairSpec ==
  /\ Spec
  /\ []<>(QueueFailed \/ remote.stream # "Starting") \/ []<><<OnWatchStreamOpen>>_vars
  /\ []<>(QueueFailed \/ ~MessageArrived) \/ []<><<WatchChange>>_vars
  /\ []<>~RequestArrived \/ []<><<ServerAccepts \/ ServerRemoves>>_vars
  /\ []<>~SnapshotIsDue \/ []<><<ServerSnapshot>>_vars
  /\ []<>(QueueFailed \/ "IndexedDbFailed" \notin remote.causes) \/ []<><<RecoverNetwork>>_vars

=============================================================================
