--------------------------- MODULE WritePipeline ---------------------------
(***************************************************************************)
(* How a Firestore write travels from setDoc() to the backend and back:    *)
(* SyncEngine (core/sync_engine_impl.ts), the mutation queue that          *)
(* LocalStore keeps in IndexedDB (local/), RemoteStore with its write      *)
(* pipeline (remote/remote_store.ts), the write stream                     *)
(* (PersistentStream), the AsyncQueue that serialises all of them, and the *)
(* credentials provider whose token events reset the pipeline.             *)
(*                                                                         *)
(* Every handler runs to completion on the AsyncQueue, so a handler is one *)
(* action.  What interleaves are the handlers: API calls, timers, token    *)
(* callbacks, and the tasks that streams and retries have enqueued.  tasks *)
(* is that FIFO; an API call or a timer carries no state into the queue,   *)
(* so it may run at any point of it.                                       *)
(***************************************************************************)
EXTENDS PersistentStream, FiniteSets

CONSTANTS
  NumUsers,       \* users are 1..NumUsers, in the order of User.toKey()
  MaxPending,     \* MAX_PENDING_WRITES
  Faults,         \* which of FaultKinds the environment may exhibit
  MaxBatches,     \* the rest bound how often things happen
  MaxBreaks, MaxToggles, MaxTokens, MaxIdbFailures, MaxRestarts, MaxWaits

(* reenable: the application calls enableNetwork() on an enabled network;  *)
(* viewRefill: a view is over a limit query that a write makes it read     *)
(* again, so IndexedDB may also fail after a transaction has committed.    *)
FaultKinds == {"reenable", "viewRefill"}

ASSUME UsersAssumption == NumUsers \in Nat \ {0}
ASSUME PendingAssumption == MaxPending \in Nat \ {0}
ASSUME FaultsAssumption == Faults \subseteq FaultKinds
ASSUME BoundsAssumption ==
  \A n \in {MaxBatches, MaxBreaks, MaxToggles, MaxTokens, MaxIdbFailures,
            MaxRestarts, MaxWaits} : n \in Nat

Users == 1 .. NumUsers

VARIABLES
  rs,         \* RemoteStore with its write stream
  local,      \* LocalStore: the persisted queues and index, and its user
  engine,     \* SyncEngine: its user, callbacks and waitForPendingWrites()
  creds,      \* credentials provider: its user, tokenCounter # lastTokenId
  tasks,      \* the AsyncQueue: stream callbacks and retryable operations
  retryOps,   \* AsyncQueue.retryableOps
  mode,       \* "running", "terminated" or "failed" (AsyncQueue.failure)
  author,     \* author[b]: the user whose queue batch b was written to
  promise,    \* promise[b]: what the application was told about batch b
  committed,  \* backend: <<b, u>> when it committed b under u's token
  refused,    \* backend: the batches it refused for good
  used        \* how much of each bound is spent

vars == <<rs, local, engine, creds, tasks, retryOps, mode, author, promise,
          committed, refused, used>>

----------------------------------------------------------------------------
(* Small helpers                                                           *)

Least(m, n) == IF m < n THEN m ELSE n
Elems(q) == {q[i] : i \in DOMAIN q}

(* The batches of an ascending queue with an id above `last'.              *)
After(q, last) ==
  SubSeq(q, Cardinality({i \in DOMAIN q : q[i] <= last}) + 1, Len(q))

Without(q, b) ==
  IF \E i \in DOMAIN q : q[i] = b
    THEN LET i == CHOOSE i \in DOMAIN q : q[i] = b
         IN  SubSeq(q, 1, i - 1) \o SubSeq(q, i + 1, Len(q))
    ELSE q

StreamKinds == {"open", "handshake", "result", "transient", "permanent"}
OpKinds == {"acknowledge", "reject", "probe", "auth", "appCheck"}

Op(kind, b) == [kind |-> kind, cc |-> 0, batch |-> b]

Spend(spent, what) == [spent EXCEPT ![what] = @ + 1]

----------------------------------------------------------------------------
(* RemoteStore: operators on the record s                                  *)

OfflineCauses ==
  {"UserDisabled", "IndexedDbFailed", "CredentialChange",
   "ConnectivityChange", "Shutdown"}

NewRemoteStore(rpcs) ==
  [state |-> "Initial", closeCount |-> 0, handshake |-> FALSE,
   idle |-> FALSE, backoff |-> FALSE, stream |-> 0, rpcs |-> rpcs,
   pipeline |-> <<>>, causes |-> {}]

CanUseNetwork(s) == s.causes = {}

CanAddToWritePipeline(s) == CanUseNetwork(s) /\ Len(s.pipeline) < MaxPending

ShouldStartWriteStream(s) ==
  CanUseNetwork(s) /\ ~IsStarted(s) /\ s.pipeline # <<>>

StartIfNeeded(s) == IF ShouldStartWriteStream(s) THEN StartStream(s) ELSE s

(* Mutant: sends a batch before the handshake is over.                     *)
AddToOpenStream(s, bs) ==
  LET added == [s EXCEPT !.pipeline = @ \o bs]
  IN  IF IsOpen(s) /\ s.stream # 0 THEN Send(added, bs) ELSE added

(* addToWritePipeline for each batch of bs.                                *)
AddToWritePipeline(s, bs) ==
  LET added == [s EXCEPT !.pipeline = @ \o bs]
  IN  IF IsOpen(s) /\ s.handshake THEN Send(added, bs) ELSE added

(* What the loop of fillWritePipeline would read from the user's queue q.  *)
NextBatches(s, q) ==
  LET last == IF s.pipeline = <<>> THEN 0 ELSE s.pipeline[Len(s.pipeline)]
      rest == After(q, last)
  IN  SubSeq(rest, 1, Least(MaxPending - Len(s.pipeline), Len(rest)))

(* Mutant: refills the pipeline only once it is empty.                     *)
FillOnlyWhenEmpty(s, q) ==
  IF ~CanAddToWritePipeline(s) \/ s.pipeline # <<>>
    THEN StartIfNeeded(s)
    ELSE LET filled == AddToWritePipeline(s, NextBatches(s, q))
         IN  StartIfNeeded(IF filled.pipeline = <<>>
                             THEN MarkIdle(filled) ELSE filled)

FillWritePipeline(s, q) ==
  IF ~CanAddToWritePipeline(s)
    THEN StartIfNeeded(s)
    ELSE LET filled == AddToWritePipeline(s, NextBatches(s, q))
         IN  StartIfNeeded(IF filled.pipeline = <<>>
                             THEN MarkIdle(filled) ELSE filled)

(* Mutant: going offline stops the stream but keeps the pipeline.          *)
DisableKeepsPipeline(s) ==
  IF IsStarted(s) THEN StartIfNeeded(CloseStream(s, "Initial")) ELSE s

(* onNetworkStatusChange(false) of the write stream: stop() and forget the *)
(* pipeline.  A graceful close restarts the stream only if it is needed.   *)
DisableNetworkInternal(s) ==
  LET stopped == IF IsStarted(s)
                   THEN StartIfNeeded(CloseStream(s, "Initial")) ELSE s
  IN  [stopped EXCEPT !.pipeline = <<>>]

(* Mutant: does not note why the network is off.                           *)
DisableNetworkUnnoted(s) == DisableNetworkInternal(s)

(* The caller enqueues the operation that ends the outage.                 *)
DisableNetworkUntilRecovery(s) ==
  DisableNetworkInternal([s EXCEPT !.causes = @ \union {"IndexedDbFailed"}])

(* fillWritePipeline as a step: either every read of the mutation queue    *)
(* succeeds, or IndexedDB fails after k of them.  rest is what remains of  *)
(* the AsyncQueue, spent what the caller has already spent.                *)
Fill(s, q, rest, spent) ==
  \/ /\ rs' = FillWritePipeline(s, q)
     /\ tasks' = rest
     /\ used' = spent
  \/ /\ CanAddToWritePipeline(s)
     /\ spent.idb < MaxIdbFailures
     /\ \E k \in 0 .. Least(MaxPending - Len(s.pipeline) - 1,
                            Len(NextBatches(s, q))) :
          rs' = DisableNetworkUntilRecovery(
                  AddToWritePipeline(s, SubSeq(NextBatches(s, q), 1, k)))
     /\ tasks' = Append(rest, Op("probe", 0))
     /\ used' = Spend(spent, "idb")

(* onNetworkStatusChange(true) of the write stream.                        *)
EnableNetworkInternal(s, q, rest, spent) ==
  IF CanUseNetwork(s)
    THEN Fill(InhibitBackoff(s), q, rest, spent)
    ELSE rs' = s /\ tasks' = rest /\ used' = spent

----------------------------------------------------------------------------
(* LocalStore and SyncEngine                                               *)

OwnQueue == local.queue[local.user]

(* Mutant: the batch goes, its rows in the document index stay.            *)
RemoveBatchOnly(b) ==
  [local EXCEPT !.queue = [u \in Users |-> Without(local.queue[u], b)]]

(* removeMutationBatch finds the batch by its id alone, but its rows in    *)
(* the document index by the user the LocalStore has at that moment.       *)
RemoveBatch(b) ==
  [local EXCEPT !.queue = [u \in Users |-> Without(local.queue[u], b)],
                !.rows = @ \ {<<local.user, b>>}]

(* performConsistencyCheck: an empty queue has no rows left.               *)
Consistent(l) == l.queue[l.user] = <<>> => \A row \in l.rows : row[1] # l.user

(* The assertions of localStoreAcknowledgeBatch and localStoreRejectBatch. *)
Decidable(kind, b) ==
  /\ IF kind = "acknowledge"
       THEN \E u \in Users : b \in Elems(local.queue[u])
       ELSE b \in Elems(OwnQueue)
  /\ Consistent(RemoveBatch(b))

(* Mutant: the callback is discarded before it is settled.                 *)
ConcludeUnheard(kind, b) ==
  /\ local' = RemoveBatch(b)
  /\ promise' = promise
  /\ engine' = [engine EXCEPT
       !.callbacks[engine.user] = @ \ {b},
       !.waiters = {w \in @ : w.batch # b}]

(* syncEngineApplySuccessfulWrite and syncEngineRejectFailedWrite once the *)
(* transaction has committed: settle the callback that the current user    *)
(* has for this batch, and whoever waits for it.                           *)
Conclude(kind, b) ==
  LET verdict == IF kind = "acknowledge" THEN "resolved" ELSE "rejected"
  IN  /\ local' = RemoveBatch(b)
      /\ promise' =
           IF b \in engine.callbacks[engine.user] /\ promise[b] = "pending"
             THEN [promise EXCEPT ![b] = verdict] ELSE promise
      /\ engine' = [engine EXCEPT
           !.callbacks[engine.user] = @ \ {b},
           !.waiters = {w \in @ : w.batch # b}]

(* An assertion or a TypeError inside a task: the AsyncQueue is dead.      *)
QueueFails ==
  /\ mode' = "failed"
  /\ tasks' = Tail(tasks)
  /\ UNCHANGED <<rs, local, engine, creds, retryOps, author, promise,
                 committed, refused, used>>

(* The end of onMutationResult and of handleWriteError, for the batch b    *)
(* shifted off the pipeline, in the RemoteStore s: executeWithRecovery the *)
(* decision, then refill.                                                  *)
DecideAndRefill(kind, b, s) ==
  \/ /\ Decidable(kind, b)
     /\ Conclude(kind, b)
     /\ Fill(s, RemoveBatch(b).queue[local.user], Tail(tasks), used)
     /\ UNCHANGED <<creds, retryOps, mode, author, committed, refused>>
  \/ /\ ~Decidable(kind, b)
     /\ QueueFails
  \/ /\ used.idb < MaxIdbFailures
     /\ \/ UNCHANGED <<local, engine, promise>>
        \/ "viewRefill" \in Faults /\ Decidable(kind, b) /\ Conclude(kind, b)
     /\ rs' = DisableNetworkUntilRecovery(s)
     /\ tasks' = Append(Tail(tasks), Op(kind, b))
     /\ used' = Spend(used, "idb")
     /\ UNCHANGED <<creds, retryOps, mode, author, committed, refused>>

----------------------------------------------------------------------------
Init ==
  /\ rs = NewRemoteStore(<<>>)
  /\ local = [queue |-> [u \in Users |-> <<>>], rows |-> {}, user |-> 1]
  /\ engine = [user |-> 1, callbacks |-> [u \in Users |-> {}], waiters |-> {}]
  /\ creds = [user |-> 1, changed |-> FALSE]
  /\ tasks = <<>>
  /\ retryOps = <<>>
  /\ mode = "running"
  /\ author = <<>>
  /\ promise = <<>>
  /\ committed = {}
  /\ refused = {}
  /\ used = [breaks |-> 0, toggles |-> 0, tokens |-> 0, idb |-> 0,
             restarts |-> 0, waits |-> 0]

Running == mode = "running"

----------------------------------------------------------------------------
(* Calls of the application and of the platform                            *)

(* setDoc(), commit(), ...: syncEngineWrite.  A failure to persist rejects *)
(* the promise at once and leaves no trace, so it is not a step here; a    *)
(* failure in the views rejects the promise of a batch that is queued.     *)
Write ==
  /\ Running
  /\ Len(author) < MaxBatches
  /\ LET b == Len(author) + 1
         q == Append(OwnQueue, b)
     IN  /\ author' = Append(author, local.user)
         /\ local' = [local EXCEPT !.queue[local.user] = q,
                                   !.rows = @ \union {<<local.user, b>>}]
         /\ engine' = [engine EXCEPT
              !.callbacks[engine.user] = @ \union {b}]
         /\ \/ /\ promise' = Append(promise, "pending")
               /\ Fill(rs, q, tasks, used)
            \/ /\ "viewRefill" \in Faults
               /\ used.idb < MaxIdbFailures
               /\ promise' = Append(promise, "rejected")
               /\ used' = Spend(used, "idb")
               /\ UNCHANGED <<rs, tasks>>
  /\ UNCHANGED <<creds, retryOps, mode, committed, refused>>

(* Mutant: the first pending batch instead of the last.                    *)
LowestUnacknowledged(u) ==
  IF local.queue[u] = <<>> THEN 0 ELSE Head(local.queue[u])

(* getHighestUnacknowledgedBatchId: the last key of the [user, batch]      *)
(* index up to [user, infinity], whosever it is; 0 for BATCHID_UNKNOWN.    *)
HighestUnacknowledged(u) ==
  LET older == {v \in 1 .. u : local.queue[v] # <<>>}
  IN  IF older = {}
        THEN 0
        ELSE LET v == CHOOSE v \in older : \A w \in older : w <= v
             IN  local.queue[v][Len(local.queue[v])]

(* Mutant: registers a callback although nothing is pending.               *)
WaitForNothing ==
  /\ Running
  /\ used.waits < MaxWaits
  /\ engine' = [engine EXCEPT !.waiters = @ \union
       {[batch |-> HighestUnacknowledged(local.user),
         covers |-> Elems(OwnQueue)]}]
  /\ used' = Spend(used, "waits")
  /\ UNCHANGED <<rs, local, creds, tasks, retryOps, mode, author, promise,
                 committed, refused>>

(* waitForPendingWrites(): with nothing pending it resolves at once.       *)
WaitForPendingWrites ==
  /\ Running
  /\ used.waits < MaxWaits
  /\ HighestUnacknowledged(local.user) # 0
  /\ engine' = [engine EXCEPT !.waiters = @ \union
       {[batch |-> HighestUnacknowledged(local.user),
         covers |-> Elems(OwnQueue)]}]
  /\ used' = Spend(used, "waits")
  /\ UNCHANGED <<rs, local, creds, tasks, retryOps, mode, author, promise,
                 committed, refused>>

EnableNetwork ==
  /\ Running
  /\ \/ "UserDisabled" \in rs.causes
     \/ "reenable" \in Faults /\ used.toggles < MaxToggles
  /\ EnableNetworkInternal([rs EXCEPT !.causes = @ \ {"UserDisabled"}],
                           OwnQueue, tasks,
                           IF "UserDisabled" \in rs.causes
                             THEN used ELSE Spend(used, "toggles"))
  /\ UNCHANGED <<local, engine, creds, retryOps, mode, author, promise,
                 committed, refused>>

DisableNetwork ==
  /\ Running
  /\ used.toggles < MaxToggles
  /\ rs' = DisableNetworkInternal([rs EXCEPT !.causes = @ \union {"UserDisabled"}])
  /\ used' = Spend(used, "toggles")
  /\ UNCHANGED <<local, engine, creds, tasks, retryOps, mode, author, promise,
                 committed, refused>>

(* The connectivity monitor's callback: restartNetwork.                    *)
ConnectivityChange ==
  /\ Running
  /\ used.toggles < MaxToggles
  /\ CanUseNetwork(rs)
  /\ LET off == DisableNetworkInternal([rs EXCEPT !.causes = {"ConnectivityChange"}])
     IN  EnableNetworkInternal([off EXCEPT !.causes = {}], OwnQueue, tasks,
                               Spend(used, "toggles"))
  /\ UNCHANGED <<local, engine, creds, retryOps, mode, author, promise,
                 committed, refused>>

(* Mutant: a refresh overwrites the note of a sign-in not yet handled.     *)
AuthTokenForgetsSignIn(u) ==
  /\ Running
  /\ used.tokens < MaxTokens
  /\ creds' = [user |-> u, changed |-> u # creds.user]
  /\ tasks' = Append(tasks, Op("auth", 0))
  /\ used' = Spend(used, "tokens")
  /\ UNCHANGED <<rs, local, engine, retryOps, mode, author, promise,
                 committed, refused>>

(* Auth calls the token listener: a refreshed token of the same user, or a *)
(* sign-in of another.                                                     *)
AuthTokenChanged(u) ==
  /\ Running
  /\ used.tokens < MaxTokens
  /\ creds' = [user |-> u, changed |-> TRUE]
  /\ tasks' = Append(tasks, Op("auth", 0))
  /\ used' = Spend(used, "tokens")
  /\ UNCHANGED <<rs, local, engine, retryOps, mode, author, promise,
                 committed, refused>>

AppCheckTokenChanged ==
  /\ Running
  /\ used.tokens < MaxTokens
  /\ tasks' = Append(tasks, Op("appCheck", 0))
  /\ used' = Spend(used, "tokens")
  /\ UNCHANGED <<rs, local, engine, creds, retryOps, mode, author, promise,
                 committed, refused>>

(* terminate() enters restricted mode; the tasks already enqueued run      *)
(* first, everything later is dropped.                                     *)
Terminate ==
  /\ Running
  /\ tasks = <<>>
  /\ used.restarts < MaxRestarts
  /\ mode' = "terminated"
  /\ rs' = DisableNetworkInternal([rs EXCEPT !.causes = @ \union {"Shutdown"}])
  /\ UNCHANGED <<local, engine, creds, tasks, retryOps, author, promise,
                 committed, refused, used>>

(* The page is closed or crashes, and a later one opens the same database: *)
(* what is in memory is gone, the queues are read again.                   *)
Restart ==
  /\ used.restarts < MaxRestarts
  /\ LET closed == [n \in DOMAIN rs.rpcs |->
                      [rs.rpcs[n] EXCEPT !.phase = "closed"]]
     IN  Fill(NewRemoteStore(closed), local.queue[creds.user], <<>>,
              Spend(used, "restarts"))
  /\ local' = [local EXCEPT !.user = creds.user]
  /\ engine' = [user |-> creds.user, callbacks |-> [u \in Users |-> {}],
                waiters |-> {}]
  /\ creds' = [creds EXCEPT !.changed = FALSE]
  /\ promise' = [b \in DOMAIN promise |->
                   IF promise[b] = "pending" THEN "lost" ELSE promise[b]]
  /\ retryOps' = <<>>
  /\ mode' = "running"
  /\ UNCHANGED <<author, committed, refused>>

----------------------------------------------------------------------------
(* The stream's own continuations and timers                               *)

Rpc(n, phase) == [rs EXCEPT !.rpcs[n].phase = phase]

(* getToken() of the auth provider answers, for whoever is signed in now.  *)
TokenFetched(n) ==
  /\ rs.rpcs[n].phase = "auth"
  /\ rs' = [rs EXCEPT !.rpcs[n] = [@ EXCEPT !.phase = "token",
                                            !.user = creds.user]]
  /\ UNCHANGED <<local, engine, creds, tasks, retryOps, mode, author, promise,
                 committed, refused, used>>

(* Both tokens are there.  This continuation does not run on the           *)
(* AsyncQueue, so it checks the generation itself.                         *)
StartRpc(n) ==
  /\ rs.rpcs[n].phase = "token"
  /\ rs' = IF rs.rpcs[n].cc = rs.closeCount
             THEN [Rpc(n, "connecting") EXCEPT !.stream = n]
             ELSE Rpc(n, "closed")
  /\ UNCHANGED <<local, engine, creds, tasks, retryOps, mode, author, promise,
                 committed, refused, used>>

StreamTask(n, kind, b) ==
  [kind |-> kind, cc |-> rs.rpcs[n].cc, batch |-> b]

TokenFetchFails(n) ==
  /\ rs.rpcs[n].phase \in {"auth", "token"}
  /\ used.breaks < MaxBreaks
  /\ rs' = Rpc(n, "closed")
  /\ tasks' = IF Running THEN Append(tasks, StreamTask(n, "transient", 0))
                         ELSE tasks
  /\ used' = Spend(used, "breaks")
  /\ UNCHANGED <<local, engine, creds, retryOps, mode, author, promise,
                 committed, refused>>

IdleTimeout ==
  /\ Running
  /\ rs.idle
  /\ rs' = IF IsOpen(rs) THEN StartIfNeeded(CloseStream(rs, "Initial"))
                         ELSE [rs EXCEPT !.idle = FALSE]
  /\ UNCHANGED <<local, engine, creds, tasks, retryOps, mode, author, promise,
                 committed, refused, used>>

(* Mutant: leaves the backoff state without starting again.                *)
BackoffElapsesIdly ==
  /\ Running
  /\ rs.backoff
  /\ rs' = [rs EXCEPT !.backoff = FALSE, !.state = "Initial"]
  /\ UNCHANGED <<local, engine, creds, tasks, retryOps, mode, author, promise,
                 committed, refused, used>>

BackoffElapsed ==
  /\ Running
  /\ rs.backoff
  /\ rs' = StartStream([rs EXCEPT !.backoff = FALSE, !.state = "Initial"])
  /\ UNCHANGED <<local, engine, creds, tasks, retryOps, mode, author, promise,
                 committed, refused, used>>

----------------------------------------------------------------------------
(* Tasks that streams enqueued, behind the close-guarded dispatcher        *)

(* Mutant: the dispatcher does not look at the generation.                 *)
AlwaysLive(t) == t = t

IsLive(t) == t.cc = rs.closeCount

NextTask(kind) == Running /\ tasks # <<>> /\ Head(tasks).kind = kind

SkipStaleCallback ==
  /\ Running
  /\ tasks # <<>>
  /\ Head(tasks).kind \in StreamKinds
  /\ ~IsLive(Head(tasks))
  /\ tasks' = Tail(tasks)
  /\ UNCHANGED <<rs, local, engine, creds, retryOps, mode, author, promise,
                 committed, refused, used>>

OnOpen ==
  /\ NextTask("open")
  /\ IsLive(Head(tasks))
  /\ rs' = Send([rs EXCEPT !.state = "Open"], <<Handshake>>)
  /\ tasks' = Tail(tasks)
  /\ UNCHANGED <<local, engine, creds, retryOps, mode, author, promise,
                 committed, refused, used>>

(* The first response must be the handshake's: onFirst and                 *)
(* onWriteHandshakeComplete; onNext rejects a second one for want of a     *)
(* commit time.                                                            *)
OnHandshake ==
  /\ NextTask("handshake")
  /\ IsLive(Head(tasks))
  /\ IF rs.handshake
       THEN QueueFails
       ELSE /\ rs' = Send([rs EXCEPT !.handshake = TRUE], rs.pipeline)
            /\ tasks' = Tail(tasks)
            /\ UNCHANGED <<local, engine, creds, retryOps, mode, author,
                           promise, committed, refused, used>>

(* onNext and onMutationResult: the response carries no batch id, it       *)
(* answers the first batch of the pipeline.                                *)
OnMutationResult ==
  /\ NextTask("result")
  /\ IsLive(Head(tasks))
  /\ IF ~rs.handshake \/ rs.pipeline = <<>>
       THEN QueueFails
       ELSE DecideAndRefill("acknowledge", Head(rs.pipeline),
                            [rs EXCEPT !.pipeline = Tail(@)])

(* Mutant: a permanent error fails the first write even when the handshake *)
(* was not over.                                                           *)
OnAnyStreamClose(kind) ==
  LET closed == HandleStreamClose(rs)
  IN  /\ NextTask(kind)
      /\ IsLive(Head(tasks))
      /\ IF kind = "permanent" /\ rs.pipeline # <<>>
           THEN DecideAndRefill("reject", Head(rs.pipeline),
                  InhibitBackoff([closed EXCEPT !.pipeline = Tail(@)]))
           ELSE /\ rs' = StartIfNeeded(closed)
                /\ tasks' = Tail(tasks)
                /\ UNCHANGED <<local, engine, creds, retryOps, mode, author,
                               promise, committed, refused, used>>

(* handleStreamClose and onWriteStreamClose.                               *)
OnStreamClose(kind) ==
  LET closed == HandleStreamClose(rs)
  IN  /\ NextTask(kind)
      /\ IsLive(Head(tasks))
      /\ IF kind = "permanent" /\ rs.handshake
           THEN IF rs.pipeline = <<>>
                  THEN QueueFails
                  ELSE DecideAndRefill("reject", Head(rs.pipeline),
                         InhibitBackoff([closed EXCEPT !.pipeline = Tail(@)]))
           ELSE /\ rs' = StartIfNeeded(closed)
                /\ tasks' = Tail(tasks)
                /\ UNCHANGED <<local, engine, creds, retryOps, mode, author,
                               promise, committed, refused, used>>

----------------------------------------------------------------------------
(* Retryable operations: retryNextOp with the list ops, the rest of the    *)
(* AsyncQueue being rest                                                   *)

IdbFailsAgain(ops, rest) ==
  /\ used.idb < MaxIdbFailures
  /\ retryOps' = ops
  /\ tasks' = rest
  /\ used' = Spend(used, "idb")

(* The recovery operation of disableNetworkUntilRecovery.                  *)
RetryRecovery(ops, rest) ==
  LET kind == Head(ops).kind
      b == Head(ops).batch
      back == [rs EXCEPT !.causes = @ \ {"IndexedDbFailed"}]
  IN  /\ kind \in {"acknowledge", "reject", "probe"}
      /\ \/ /\ kind # "probe" /\ Decidable(kind, b)
            /\ Conclude(kind, b)
            /\ EnableNetworkInternal(back, RemoveBatch(b).queue[local.user],
                                     rest, used)
            /\ retryOps' = Tail(ops)
            /\ UNCHANGED mode
         \/ /\ kind = "probe"
            /\ EnableNetworkInternal(back, OwnQueue, rest, used)
            /\ retryOps' = Tail(ops)
            /\ UNCHANGED <<local, engine, promise, mode>>
         \/ /\ kind # "probe" /\ ~Decidable(kind, b)
            /\ mode' = "failed"
            /\ tasks' = rest /\ retryOps' = ops
            /\ UNCHANGED <<rs, local, engine, promise, used>>
         \/ /\ IdbFailsAgain(ops, rest)
            /\ \/ UNCHANGED <<local, engine, promise>>
               \/ /\ "viewRefill" \in Faults
                  /\ kind # "probe" /\ Decidable(kind, b)
                  /\ Conclude(kind, b)
            /\ UNCHANGED <<rs, mode>>
      /\ UNCHANGED <<creds, author, committed, refused>>

(* Mutant: switches the queue under the running stream.                    *)
SwitchUserOnly(u, ops, rest) ==
  /\ local' = [local EXCEPT !.user = u]
  /\ engine' = [engine EXCEPT !.user = u, !.waiters = {}]
  /\ Fill(rs, local.queue[u], rest, used)
  /\ retryOps' = Tail(ops)

(* remoteStoreHandleCredentialChange(u).  A change of user reads both      *)
(* queues in one transaction; if that fails the LocalStore may or may not  *)
(* have switched to u, and CredentialChange stays among the causes.  So it *)
(* does if a view fails afterwards.                                        *)
HandleCredentialChange(u, ops, rest) ==
  LET off == DisableNetworkInternal(
               [rs EXCEPT !.causes = @ \union {"CredentialChange"}])
      on == [off EXCEPT !.causes = @ \ {"CredentialChange"}]
  IN  \/ /\ u = engine.user
         /\ EnableNetworkInternal(on, OwnQueue, rest, used)
         /\ retryOps' = Tail(ops)
         /\ UNCHANGED <<local, engine>>
      \/ /\ u # engine.user
         /\ local' = [local EXCEPT !.user = u]
         /\ engine' = [engine EXCEPT !.user = u, !.waiters = {}]
         /\ EnableNetworkInternal(on, local.queue[u], rest, used)
         /\ retryOps' = Tail(ops)
      \/ /\ u # engine.user
         /\ IdbFailsAgain(ops, rest)
         /\ rs' = off
         /\ \/ /\ \E v \in {u, local.user} : local' = [local EXCEPT !.user = v]
               /\ UNCHANGED engine
            \/ /\ "viewRefill" \in Faults
               /\ local' = [local EXCEPT !.user = u]
               /\ engine' = [engine EXCEPT !.user = u, !.waiters = {}]

(* The auth listener ignores an event it has already started to handle;    *)
(* the App Check listener passes on the user of the last auth event that   *)
(* succeeded, which is SyncEngine's.                                       *)
RetryCredentials(ops, rest) ==
  /\ \/ /\ Head(ops).kind = "auth" /\ creds.changed
        /\ creds' = [creds EXCEPT !.changed = FALSE]
        /\ HandleCredentialChange(creds.user, ops, rest)
     \/ /\ Head(ops).kind = "auth" /\ ~creds.changed
        /\ retryOps' = Tail(ops) /\ tasks' = rest
        /\ UNCHANGED <<rs, local, engine, creds, used>>
     \/ /\ Head(ops).kind = "appCheck"
        /\ HandleCredentialChange(engine.user, ops, rest)
        /\ UNCHANGED creds
  /\ UNCHANGED <<mode, author, promise, committed, refused>>

RetryNextOp(ops, rest) == RetryRecovery(ops, rest) \/ RetryCredentials(ops, rest)

(* The task of enqueueRetryable: the new operation goes last, the first    *)
(* one is tried.                                                           *)
RunRetryTask ==
  /\ Running
  /\ tasks # <<>>
  /\ Head(tasks).kind \in OpKinds
  /\ RetryNextOp(Append(retryOps, Head(tasks)), Tail(tasks))

RetryTimer ==
  /\ Running
  /\ retryOps # <<>>
  /\ RetryNextOp(retryOps, tasks)

----------------------------------------------------------------------------
(* The backend, one RPC at a time.  Once the client is gone nothing is     *)
(* enqueued any more.                                                      *)

Emit(n, kind, b) ==
  tasks' = IF Running THEN Append(tasks, StreamTask(n, kind, b)) ELSE tasks

Requests(n) == rs.rpcs[n].reqs

BackendAccepts(n) ==
  /\ rs.rpcs[n].phase = "connecting"
  /\ rs' = Rpc(n, "open")
  /\ Emit(n, "open", 0)
  /\ UNCHANGED <<local, engine, creds, retryOps, mode, author, promise,
                 committed, refused, used>>

BackendShakesHands(n) ==
  /\ rs.rpcs[n].phase = "open"
  /\ Requests(n) # <<>>
  /\ rs' = [rs EXCEPT !.rpcs[n] = [@ EXCEPT !.phase = "ready",
                                            !.reqs = Tail(Requests(n))]]
  /\ Emit(n, "handshake", 0)
  /\ UNCHANGED <<local, engine, creds, retryOps, mode, author, promise,
                 committed, refused, used>>

BackendCommits(n) ==
  /\ rs.rpcs[n].phase = "ready"
  /\ Requests(n) # <<>>
  /\ committed' = committed \union {<<Head(Requests(n)), rs.rpcs[n].user>>}
  /\ rs' = [rs EXCEPT !.rpcs[n] = [@ EXCEPT !.reqs = Tail(Requests(n))]]
  /\ Emit(n, "result", Head(Requests(n)))
  /\ UNCHANGED <<local, engine, creds, retryOps, mode, author, promise,
                 refused, used>>

(* A permanent error for the first unanswered write ends the stream.       *)
BackendRefuses(n) ==
  /\ rs.rpcs[n].phase = "ready"
  /\ Requests(n) # <<>>
  /\ used.breaks < MaxBreaks
  /\ refused' = refused \union {Head(Requests(n))}
  /\ rs' = [rs EXCEPT !.rpcs[n] = [@ EXCEPT !.phase = "closed",
                                            !.reqs = <<>>]]
  /\ Emit(n, "permanent", Head(Requests(n)))
  /\ used' = Spend(used, "breaks")
  /\ UNCHANGED <<local, engine, creds, retryOps, mode, author, promise,
                 committed>>

(* The stream breaks, or is refused before the handshake.                  *)
StreamBreaks(n, kind) ==
  /\ rs.rpcs[n].phase \in {"connecting", "open", "ready"}
  /\ kind = "permanent" => rs.rpcs[n].phase # "ready"
  /\ used.breaks < MaxBreaks
  /\ rs' = Rpc(n, "closed")
  /\ Emit(n, kind, 0)
  /\ used' = Spend(used, "breaks")
  /\ UNCHANGED <<local, engine, creds, retryOps, mode, author, promise,
                 committed, refused>>

(* Requests that were on their way when the stream ended may still be      *)
(* committed; nobody hears of it.                                          *)
OrphanCommits(n) ==
  /\ rs.rpcs[n].phase = "closed"
  /\ Requests(n) # <<>>
  /\ Head(Requests(n)) # Handshake
  /\ committed' = committed \union {<<Head(Requests(n)), rs.rpcs[n].user>>}
  /\ rs' = [rs EXCEPT !.rpcs[n] = [@ EXCEPT !.reqs = Tail(Requests(n))]]
  /\ UNCHANGED <<local, engine, creds, tasks, retryOps, mode, author, promise,
                 refused, used>>

----------------------------------------------------------------------------
Application ==
  \/ Write \/ WaitForPendingWrites
  \/ EnableNetwork \/ DisableNetwork \/ ConnectivityChange
  \/ \E u \in Users : AuthTokenChanged(u)
  \/ AppCheckTokenChanged
  \/ Terminate \/ Restart

StreamCallback ==
  \/ SkipStaleCallback \/ OnOpen \/ OnHandshake \/ OnMutationResult
  \/ OnStreamClose("transient") \/ OnStreamClose("permanent")

Timer == IdleTimeout \/ BackoffElapsed \/ RetryTimer

Rpcs == DOMAIN rs.rpcs

Backend(n) ==
  \/ BackendAccepts(n) \/ BackendShakesHands(n)
  \/ BackendCommits(n) \/ BackendRefuses(n)

Next ==
  \/ Application
  \/ StreamCallback
  \/ RunRetryTask
  \/ Timer
  \/ \E n \in Rpcs :
       \/ TokenFetched(n) \/ StartRpc(n) \/ TokenFetchFails(n)
       \/ Backend(n)
       \/ StreamBreaks(n, "transient") \/ StreamBreaks(n, "permanent")
       \/ OrphanCommits(n)

Spec == Init /\ [][Next]_vars

(* What makes progress: the AsyncQueue runs its tasks and timers fire, the *)
(* token providers answer, the backend answers an open stream.  Nothing    *)
(* makes the application call, a stream break or a batch be refused.       *)
Fairness ==
  /\ WF_vars(StreamCallback)
  /\ WF_vars(RunRetryTask)
  /\ WF_vars(BackoffElapsed)
  /\ WF_vars(RetryTimer)
  /\ WF_vars(\E n \in Rpcs : TokenFetched(n) \/ StartRpc(n))
  /\ WF_vars(\E n \in Rpcs : Backend(n))

FairSpec == Spec /\ Fairness

----------------------------------------------------------------------------
(* Types                                                                   *)

BatchIds == Nat \ {0}

RpcType ==
  [cc : Nat, phase : RpcPhases, user : Users \union {0}, reqs : Seq(Nat)]

RemoteStoreType ==
  [state : StreamStates, closeCount : Nat, handshake : BOOLEAN,
   idle : BOOLEAN, backoff : BOOLEAN, stream : Nat, rpcs : Seq(RpcType),
   pipeline : Seq(BatchIds), causes : SUBSET OfflineCauses]

LocalType ==
  [queue : [Users -> Seq(BatchIds)], rows : SUBSET (Users \X BatchIds),
   user : Users]

EngineType ==
  [user : Users, callbacks : [Users -> SUBSET BatchIds],
   waiters : SUBSET [batch : BatchIds, covers : SUBSET BatchIds]]

TaskType == [kind : StreamKinds \union OpKinds, cc : Nat, batch : Nat]

SpentType ==
  [breaks : Nat, toggles : Nat, tokens : Nat, idb : Nat, restarts : Nat,
   waits : Nat]

(* Type invariant of the pipeline's state.                                 *)
TypeOK ==
  /\ rs \in RemoteStoreType
  /\ rs.stream \in Rpcs \union {0}
  /\ local \in LocalType
  /\ engine \in EngineType
  /\ creds \in [user : Users, changed : BOOLEAN]
  /\ tasks \in Seq(TaskType)
  /\ retryOps \in Seq(TaskType)
  /\ mode \in {"running", "terminated", "failed"}
  /\ author \in Seq(Users)
  /\ promise \in Seq({"pending", "resolved", "rejected", "lost"})
  /\ committed \subseteq Nat \X (Users \union {0})
  /\ refused \subseteq Nat
  /\ used \in SpentType

----------------------------------------------------------------------------
(* Properties                                                              *)

Follows(s) ==
  /\ CanUseNetwork(s) => (s.pipeline # <<>> => IsStarted(s))
  /\ ~CanUseNetwork(s) => s.pipeline = <<>> /\ ~IsStarted(s)

(* The write stream is on its way or open whenever the network may be used *)
(* and the pipeline holds a batch, and down with an empty pipeline while   *)
(* any reason to be offline remains: no write stalls for want of a stream  *)
(* and none leaks out while offline (remote_store.ts, shouldStartWrite-    *)
(* Stream, onNetworkStatusChange).                                         *)
StreamFollowsPipeline == Follows(rs)

(* What StreamFollowsPipeline rests on.  An attempt that can still call    *)
(* back, and a callback that the dispatcher would let through, belong to a *)
(* stream that is under way; the backoff timer runs only in state Backoff; *)
(* and at most one operation is trying to end an IndexedDB outage, which   *)
(* keeps the network off for as long as it tries.                          *)
UnderWay(s) == s.state \in {"Starting", "Open"}

Sound(s) ==
  /\ s.backoff => s.state = "Backoff"
  /\ \A n \in DOMAIN s.rpcs :
       s.rpcs[n].phase # "closed" =>
         /\ s.rpcs[n].cc <= s.closeCount
         /\ s.rpcs[n].cc = s.closeCount => UnderWay(s)

CallbacksSound(s, queue) ==
  \A i \in DOMAIN queue :
    queue[i].kind \in StreamKinds =>
      /\ queue[i].cc <= s.closeCount
      /\ queue[i].cc = s.closeCount => UnderWay(s)

RecoversIn(queue, i) == queue[i].kind \in {"acknowledge", "reject", "probe"}

OneRecovery(s, ops, queue) ==
  /\ \A i \in DOMAIN ops :
       RecoversIn(ops, i) =>
         /\ "IndexedDbFailed" \in s.causes
         /\ \A j \in DOMAIN ops : RecoversIn(ops, j) => j = i
         /\ \A j \in DOMAIN queue : ~RecoversIn(queue, j)
  /\ \A i \in DOMAIN queue :
       RecoversIn(queue, i) =>
         /\ "IndexedDbFailed" \in s.causes
         /\ \A j \in DOMAIN queue : RecoversIn(queue, j) => j = i

NetworkInv(s, ops, queue) ==
  /\ Follows(s)
  /\ Sound(s)
  /\ CallbacksSound(s, queue)
  /\ OneRecovery(s, ops, queue)

(* The network is used by one stream at a time and switched back on by one *)
(* recovery at a time: an inductive invariant that implies                 *)
(* StreamFollowsPipeline (persistent_stream.ts, closeCount; remote_store.  *)
(* ts, "Unexpected network event when IndexedDB was marked failed").       *)
OneStreamOneRecovery == NetworkInv(rs, retryOps, tasks)

(* Online, the pipeline is the front of the current user's mutation queue, *)
(* filled up to MAX_PENDING_WRITES: whatever was acknowledged, rejected,   *)
(* retried or persisted by an earlier session (fillWritePipeline).         *)
PipelineMirrorsQueue ==
  Running /\ CanUseNetwork(rs) =>
    rs.pipeline = SubSeq(OwnQueue, 1, Least(MaxPending, Len(OwnQueue)))

(* The idle timer never runs on a stream that has work to do, nor on one   *)
(* that is not open (persistent_stream.ts, markIdle and cancelIdleCheck).  *)
IdleOnlyWhenDrained == rs.idle => IsOpen(rs) /\ rs.pipeline = <<>>

(* The answers on their way to s: the live responses among its callbacks.  *)
Answers(s, queue) ==
  {i \in DOMAIN queue : queue[i].kind = "result" /\ queue[i].cc = s.closeCount}

(* The i-th callback is the how-manieth of them.                           *)
Rank(answers, i) == Cardinality({j \in answers : j <= i})

Correlated(s, queue) ==
  LET answers == Answers(s, queue)
  IN  /\ Cardinality(answers) <= Len(s.pipeline)
      /\ \A i \in answers : queue[i].batch = s.pipeline[Rank(answers, i)]
      /\ s.handshake /\ s.stream # 0 /\ s.rpcs[s.stream].phase = "ready"
           => s.rpcs[s.stream].reqs =
                SubSeq(s.pipeline, Cardinality(answers) + 1, Len(s.pipeline))

(* A response says nothing about the write it answers, so it must meet it  *)
(* at the head of the pipeline: the answers still on their way, followed   *)
(* by the requests still unanswered, are the pipeline, batch for batch     *)
(* (onMutationResult, "correlated to the first write in our pipeline").    *)
ResultsCorrelate == Running => Correlated(rs, tasks)

(* A write whose promise is still open is still queued for its author and  *)
(* its callback is where the acknowledgement will look for it: no promise  *)
(* is orphaned by a reset, a retry or a change of user (processUser-       *)
(* Callback, mutationUserCallbacks).                                       *)
PromisesBacked ==
  \A b \in DOMAIN promise :
    promise[b] = "pending" =>
      /\ b \in Elems(local.queue[author[b]])
      /\ b \in engine.callbacks[author[b]]

(* The document index of the mutation queue has a row for every queued     *)
(* batch and none for a batch that is gone; a dangling row makes later     *)
(* reads fail (performConsistencyCheck).                                   *)
MutationRowsBacked ==
  local.rows = {row \in Users \X (1 .. Len(author)) :
                  row[2] \in Elems(local.queue[row[1]])}

AuthPending ==
  \/ \E i \in DOMAIN tasks : tasks[i].kind = "auth"
  \/ \E i \in DOMAIN retryOps : retryOps[i].kind = "auth"

(* Once every token event has been dealt with, the SyncEngine and the      *)
(* LocalStore work for the user who is signed in, and the change keeps the *)
(* network off no longer (credentials.ts, enqueueRetryable).               *)
EngineFollowsAuth ==
  Running /\ ~AuthPending =>
    /\ engine.user = creds.user
    /\ local.user = creds.user
    /\ "CredentialChange" \notin rs.causes

(* No batch reaches the backend under the token of anyone but its author,  *)
(* although tokens are fetched off the queue and users change meanwhile    *)
(* (persistent_stream.ts auth(), closeCount).                              *)
SentAsAuthor == \A c \in committed : c[2] = author[c[1]]

(* No assertion or TypeError ever kills the AsyncQueue.                    *)
QueueNeverFails == mode # "failed"

(* waitForPendingWrites() is resolved only when every batch that was       *)
(* pending at the call has been decided (triggerPendingWritesCallbacks).   *)
WaitersHeardInTime ==
  [][\A w \in engine.waiters \ engine'.waiters :
       engine'.user # engine.user
       \/ used'.restarts # used.restarts
       \/ \A u \in Users : Elems(local'.queue[u]) \intersect w.covers = {}]_vars

(* waitForPendingWrites() never waits for a batch that the current user    *)
(* did not write: nothing would resolve it ("Returns BATCHID_UNKNOWN if    *)
(* the queue is empty", localStoreGetHighestUnacknowledgedBatchId).        *)
WaitersAwaitOwnWrites == \A w \in engine.waiters : w.batch \in w.covers

(* Every step of the pipeline, the backend included, is a step of the      *)
(* reliable ordered delivery that ReliableWrites promises, or changes      *)
(* nothing an application can see.                                         *)
Promised ==
  INSTANCE ReliableWrites WITH pending <- local.queue, applied <- committed

DeliversReliably == Promised!Spec

Awaited(b) == b \in DOMAIN promise /\ promise[b] = "pending"

(* If from some time on the application neither disables the network nor   *)
(* terminates, every write it still waits for is decided in the end,       *)
(* through broken streams, failed transactions and refused batches.        *)
WritesAreDecided ==
  <>[](Running /\ "UserDisabled" \notin rs.causes) =>
    \A b \in 1 .. MaxBatches : []<>~Awaited(b)

=============================================================================
