-------------------------------- MODULE Repo --------------------------------
(***************************************************************************)
(* Writes and transactions of the Realtime Database, packages/database/    *)
(* src/core/Repo.ts, on top of PersistentConnection and of the pending     *)
(* writes and the server cache of SyncTree.  Every action is one callback  *)
(* or API call, which JavaScript runs to its end; the functions it calls   *)
(* are operators on the client record c.                                   *)
(*                                                                         *)
(* A location (a path) is the set of the leaves below it, so one location  *)
(* is above another if it contains it.  Data assigns to every leaf the     *)
(* last set() or the last change by another client (base) and the          *)
(* transactions that were run on it since (txns).  The hash of data is the *)
(* data itself.                                                            *)
(*                                                                         *)
(* The application listens at the top throughout, so that the listens of   *)
(* transactions are never sent; it calls no function of the database from  *)
(* within a callback; transactions apply locally.  update(), the           *)
(* priorities and the queries are left out.                                *)
(***************************************************************************)
EXTENDS Integers, FiniteSets, PersistentConnection

CONSTANTS
  Leaves,
  Paths,       \* the locations that are written, sets of leaves
  Txns,
  Conditional, \* transactions that return undefined once a base has changed
  MaxRetries,  \* MAX_TRANSACTION_RETRIES
  MaxSets,     \* bound: calls of set()
  MaxChanges,  \* bound: writes of other clients
  MaxEvents    \* bound: lost connections, interrupts, denials

ASSUME PathsNest ==
  \A p, q \in Paths : p \cap q = {} \/ p \subseteq q \/ q \subseteq p

ASSUME FinitelyManyPaths == IsFiniteSet(Paths)

VARIABLES
  c,        \* the client: PersistentConnection's fields, complete (whether
            \* the cache has data), writes (pending in SyncTree), queue
            \* (transactionQueueTree_, in the order of the transactions),
            \* txn (the transactions), nextId (of puts and pending writes)
  server,   \* the data, whether the connection listens, messages to the client
  applied,  \* history: how often the server has applied a transaction
  count     \* calls and events so far, for the bounds

vars == <<c, server, applied, count>>

NoHash == [l \in {} |-> 0]

Untouched == [l \in Leaves |-> [base |-> 0, txns |-> {}]]

NewTransaction ==
  [status |-> "NEW", path |-> {}, write |-> 0, retries |-> 0,
   out |-> NoHash, reason |-> "", outcome |-> "none"]

Count(what, bound) ==
  /\ count[what] < bound
  /\ count' = [count EXCEPT ![what] = @ + 1]

-----------------------------------------------------------------------------
(* SyncTree: the data as the client sees it.                               *)

At(data, path) == [l \in path |-> data[l]]

(* Data that is written over other data.                                   *)
Over(data, below) ==
  [l \in DOMAIN data \cup DOMAIN below |->
     IF l \in DOMAIN data THEN data[l] ELSE below[l]]

(* Pending writes over the server cache, without those in exclude.         *)
Layered(s, exclude) ==
  FoldLeft(LAMBDA data, w : Over(w.data, data), s.cache,
           Filter(s.writes, {w \in Range(s.writes) : w.id \notin exclude}))

(* repoGetLatestState                                                      *)
LatestState(s, path, exclude) == At(Layered(s, exclude), path)

ApplyUserOverwrite(s, data) ==
  [s EXCEPT !.writes = Append(@, [id |-> s.nextId, data |-> data]),
            !.nextId = @ + 1]

(* syncTreeAckUserWrite, with or without revert: what the server made of   *)
(* the write is in the cache by then.                                      *)
AckUserWrite(s, id) ==
  [s EXCEPT !.writes = Filter(@, {w \in Range(@) : w.id # id})]

(* Whether a server overwrite of path raises events: not below a pending   *)
(* write that covers it, otherwise if it changes what is seen.             *)
RaisesEvents(s, after, path) ==
  /\ ~\E i \in DOMAIN s.writes : path \subseteq DOMAIN s.writes[i].data
  /\ ~s.complete \/ Layered(s, {}) # Layered(after, {})

-----------------------------------------------------------------------------
(* The queues of transactions.                                             *)

Status(s, t) == s.txn[t].status

(* repoBuildTransactionQueue: the transactions at or below a location.     *)
QueueBelow(s, path) ==
  Filter(s.queue, {t \in Txns : s.txn[t].path \subseteq path})

QueueAt(s, path) == Filter(s.queue, {t \in Txns : s.txn[t].path = path})

HasQueue(s, path) == QueueAt(s, path) # << >>

(* repoGetAncestorTransactionNode                                          *)
AncestorWithQueue(s, path) ==
  LET above == {p \in Paths : path \subseteq p /\ HasQueue(s, p)}
  IN  IF above = {} THEN path ELSE CHOOSE p \in above : \A q \in above : q \subseteq p

(* repoPruneCompletedTransactionsBelowNode                                 *)
Prune(s) ==
  [s EXCEPT !.queue = Filter(@, {t \in Txns : Status(s, t) # "COMPLETED"})]

(* The transaction is settled: its callback runs, its pending write goes.  *)
Settle(s, t, outcome) ==
  AckUserWrite([s EXCEPT !.txn[t] = [NewTransaction EXCEPT !.status = "COMPLETED",
                                                          !.path = s.txn[t].path,
                                                          !.outcome = outcome]],
               s.txn[t].write)

(* The update function of the application, NoHash for undefined.           *)
Update(t, data) ==
  IF t \in Conditional /\ \E l \in DOMAIN data : data[l].base # 0
    THEN NoHash
    ELSE [l \in DOMAIN data |-> [data[l] EXCEPT !.txns = @ \cup {t}]]

(* A run of the update function whose result is kept as a pending write.   *)
Ran(s, t, out) ==
  ApplyUserOverwrite([s EXCEPT !.txn[t].status = "RUN", !.txn[t].out = out,
                               !.txn[t].write = s.nextId], out)

WritesOf(s, queue) == {s.txn[queue[i]].write : i \in DOMAIN queue}

(* A put with the results of all transactions of a queue, which are sent.  *)
Results(s, data, queue) ==
  FoldLeft(LAMBDA d, t : Over(s.txn[t].out, d), data, queue)

MarkSent(s, queue) ==
  [s EXCEPT !.txn = [t \in Txns |->
                       IF t \in Range(queue)
                         THEN [s.txn[t] EXCEPT !.status = "SENT", !.retries = @ + 1]
                         ELSE s.txn[t]],
            !.nextId = @ + 1]

SendResults(s, queue, latest, hash) ==
  PutInternal(MarkSent(s, queue),
              [id |-> s.nextId, data |-> Results(s, latest, queue), hash |-> hash,
               txns |-> queue, write |-> 0, queued |-> FALSE])

(* Mutant: the put has no condition.                                       *)
SendUnconditionally(s, path, queue) ==
  SendResults(s, queue, LatestState(s, path, WritesOf(s, queue)), NoHash)

(* repoSendTransactionQueue: one put with the results of all transactions, *)
(* on condition that the server has what the client sees without them.     *)
SendTransactionQueue(s, path, queue) ==
  LET latest == LatestState(s, path, WritesOf(s, queue))
  IN  SendResults(s, queue, latest, latest)

(* repoSendReadyTransactions: from the topmost queues, if all is run.      *)
SendReadyTransactions(s) ==
  LET tops == {p \in Paths : HasQueue(s, p) /\ AncestorWithQueue(s, p) = p}
      Send(d, p) ==
        LET queue == QueueBelow(d, p)
        IN  IF \A i \in DOMAIN queue : Status(d, queue[i]) = "RUN"
              THEN SendTransactionQueue(d, p, queue) ELSE d
  IN  FoldLeft(Send, s, SetToSeq(tops))

(* What repoRerunTransactionQueue does of one transaction; ignore holds    *)
(* the pending writes of those that are still to be rerun.                 *)
RerunTransaction(s, t, ignore) ==
  LET tx  == s.txn[t]
      out == Update(t, LatestState(s, tx.path, ignore))
  IN  CASE tx.status = "NEEDS_ABORT" -> Settle(s, t, tx.reason)
        [] tx.status = "RUN" /\ tx.retries >= MaxRetries -> Settle(s, t, "maxretry")
        [] tx.status = "RUN" /\ tx.retries < MaxRetries ->
             IF out = NoHash THEN Settle(s, t, "nodata")
             ELSE AckUserWrite(Ran(s, t, out), tx.write)
        [] OTHER -> s

(* repoRerunTransactionQueue                                               *)
RerunTransactionQueue(s, queue) ==
  LET ToRerun(d, from) ==
        WritesOf(d, Filter(SubSeq(queue, from, Len(queue)),
                           {t \in Txns : Status(d, t) = "RUN"}))
      Step(d, i) == RerunTransaction(d, queue[i], ToRerun(d, i))
  IN  IF queue = << >> THEN s
      ELSE SendReadyTransactions(
             Prune(FoldLeft(Step, s, [i \in DOMAIN queue |-> i])))

(* repoRerunTransactions                                                   *)
RerunTransactions(s, path) ==
  RerunTransactionQueue(s, QueueBelow(s, AncestorWithQueue(s, path)))

(* What is sent is to be aborted if it comes back.                         *)
MarkForAbort(s, ts) ==
  [s EXCEPT !.txn = [t \in Txns |->
     IF t \in ts THEN [s.txn[t] EXCEPT !.status = "SENT_NEEDS_ABORT", !.reason = "set"]
     ELSE s.txn[t]]]

SettleAll(s, ts, outcome) == FoldLeft(LAMBDA d, t : Settle(d, t, outcome), s, ts)

WithStatus(s, queue, status) ==
  Filter(queue, {t \in Txns : Status(s, t) = status})

AbortQueue(s, queue, gone) ==
  [SettleAll(MarkForAbort(s, Range(WithStatus(s, queue, "SENT"))),
             WithStatus(s, queue, "RUN"), "set")
     EXCEPT !.queue = Filter(@, Txns \ gone)]

(* Mutant: the queue is emptied although a transaction was sent.           *)
AbortEmptiesQueue(s, path) ==
  LET queue == QueueAt(s, path)
  IN  AbortQueue(s, queue, Range(queue))

(* repoAbortTransactionsOnNode: what is sent is marked, what is not is     *)
(* aborted at once.  Where nothing is marked now, the queue is emptied.    *)
AbortTransactionsOnNode(s, path) ==
  LET queue == QueueAt(s, path)
  IN  AbortQueue(s, queue,
                 IF WithStatus(s, queue, "SENT") = << >>
                   THEN Range(queue) ELSE Range(WithStatus(s, queue, "RUN")))

(* repoAbortTransactions: above, at and below the location.                *)
AbortTransactions(s, path) ==
  FoldLeft(AbortTransactionsOnNode, s,
           SetToSeq({p \in Paths : p \subseteq path \/ path \subseteq p}))

-----------------------------------------------------------------------------
(* Answers to puts.                                                        *)

(* Mutant: a disconnect puts the transactions back in their queue.         *)
RunAgain(tx, status) ==
  IF status \notin {"datastale", "disconnect"}
    THEN [tx EXCEPT !.status = "NEEDS_ABORT", !.reason = status]
  ELSE IF tx.status = "SENT_NEEDS_ABORT"
    THEN [tx EXCEPT !.status = "NEEDS_ABORT"]
  ELSE [tx EXCEPT !.status = "RUN"]

(* What an answer that is not ok makes of a transaction of its put.        *)
AfterAnswer(tx, status) ==
  IF status # "datastale"
    THEN [tx EXCEPT !.status = "NEEDS_ABORT", !.reason = status]
  ELSE IF tx.status = "SENT_NEEDS_ABORT"
    THEN [tx EXCEPT !.status = "NEEDS_ABORT"]
  ELSE [tx EXCEPT !.status = "RUN"]

MarkAnswered(s, ts, status) ==
  [s EXCEPT !.txn = [t \in Txns |-> IF t \in ts THEN AfterAnswer(s.txn[t], status)
                                    ELSE s.txn[t]]]

(* The callback in repoSendTransactionQueue.                               *)
TransactionsAnswered(s, put, status) ==
  IF status = "ok"
    THEN SendReadyTransactions(Prune(SettleAll(s, put.txns, "committed")))
    ELSE RerunTransactions(MarkAnswered(s, Range(put.txns), status), DOMAIN put.data)

PutAnswered(s, put, status) ==
  LET d == Forget(s, put.id)
  IN  IF put.txns = << >> THEN AckUserWrite(d, put.write)
      ELSE TransactionsAnswered(d, put, status)

(* onRealtimeDisconnect_ with cancelSentTransactions_: nobody knows        *)
(* whether the server has applied what was sent.                           *)
OnRealtimeDisconnect(s) ==
  LET Cancel(d, put) == Forget(TransactionsAnswered(d, put, "disconnect"), put.id)
  IN  ReconnectLater(FoldLeft(Cancel, [s EXCEPT !.phase = "idle"],
                              Filter(s.puts, {put \in Range(s.puts) :
                                                IsSentTransaction(put)})))

Close(s) == IF HasRealtime(s) THEN OnRealtimeDisconnect(s) ELSE s

-----------------------------------------------------------------------------
(* Calls of the application.                                               *)

(* repoSetWithPriority                                                     *)
SetValue(path) ==
  LET data == [l \in path |-> [base |-> count.sets + 1, txns |-> {}]]
      seen == ApplyUserOverwrite(c, data)
      put  == PutInternal(seen, [id |-> c.nextId, data |-> data, hash |-> NoHash,
                                 txns |-> << >>, write |-> c.nextId, queued |-> FALSE])
      affected == AncestorWithQueue(c, path)
  IN  /\ Count("sets", MaxSets)
      /\ c' = RerunTransactions(AbortTransactions(put, path), affected)
      /\ UNCHANGED <<server, applied>>

(* repoStartTransaction                                                    *)
StartTransaction(t, path) ==
  LET out == Update(t, LatestState(c, path, {}))
      s   == [c EXCEPT !.txn[t].path = path, !.queue = Append(@, t)]
  IN  /\ c.txn[t] = NewTransaction
      /\ c' = IF out = NoHash
                THEN [c EXCEPT !.txn[t] = [@ EXCEPT !.status = "COMPLETED",
                                                    !.path = path, !.outcome = "nodata"]]
                ELSE SendReadyTransactions(Ran(s, t, out))
      /\ UNCHANGED <<server, applied, count>>

(* repoInterrupt and repoResume: goOffline() and goOnline().               *)
GoOffline ==
  /\ "repo_interrupt" \notin c.reasons
  /\ Count("events", MaxEvents)
  /\ c' = Close(Interrupt(c, "repo_interrupt"))
  /\ server' = [server EXCEPT !.down = << >>, !.listening = FALSE]
  /\ UNCHANGED applied

GoOnline ==
  /\ "repo_interrupt" \in c.reasons
  /\ c' = Resume(c, "repo_interrupt")
  /\ UNCHANGED <<server, applied, count>>

-----------------------------------------------------------------------------
(* Callbacks.                                                              *)

(* The browser's offline and online events.                                *)
BrowserGoesOffline ==
  /\ c.online
  /\ Count("events", MaxEvents)
  /\ c' = Close(OnOnline(c, FALSE))
  /\ server' = [server EXCEPT !.down = << >>, !.listening = FALSE]
  /\ UNCHANGED applied

BrowserGoesOnline ==
  /\ ~c.online
  /\ c' = OnOnline(c, TRUE)
  /\ UNCHANGED <<server, applied, count>>

TimerFires ==
  /\ c.phase = "scheduled"
  /\ c' = EstablishConnection(c)
  /\ UNCHANGED <<server, applied, count>>

(* The handshake is over: the server forgets the old session.              *)
ConnectionIsReady ==
  /\ c.phase = "connecting"
  /\ c' = OnReady(c)
  /\ UNCHANGED <<server, applied, count>>

(* The connection fails or breaks, or a token cannot be had.               *)
ConnectionIsLost ==
  /\ HasRealtime(c)
  /\ Count("events", MaxEvents)
  /\ c' = OnRealtimeDisconnect(c)
  /\ server' = [server EXCEPT !.down = << >>, !.listening = FALSE]
  /\ UNCHANGED applied

(* onKill: the server shuts the client down, for good.                     *)
ServerKills ==
  /\ c.phase = "open"
  /\ Count("events", MaxEvents)
  /\ c' = Close(Interrupt(c, "server_kill"))
  /\ server' = [server EXCEPT !.down = << >>, !.listening = FALSE]
  /\ UNCHANGED applied

(* repoOnDataUpdate                                                        *)
OnDataUpdate(s, data) ==
  LET after == [s EXCEPT !.cache = Over(data, @), !.complete = TRUE]
  IN  IF RaisesEvents(s, after, DOMAIN data)
        THEN RerunTransactions(after, DOMAIN data) ELSE after

MessageArrives == c.phase = "open" /\ server.down # << >>

(* onDataMessage_                                                          *)
Receive ==
  LET m == Head(server.down)
  IN  /\ MessageArrives
      /\ \/ /\ m.kind = "data"
            /\ c' = OnDataUpdate(c, m.data)
         \/ /\ m.kind = "listening"
            /\ c' = [c EXCEPT !.complete = TRUE]
         \/ /\ m.kind = "answer"
            /\ \E i \in DOMAIN c.puts :
                 /\ c.puts[i].id = m.id
                 /\ c' = PutAnswered(c, c.puts[i], m.status)
      /\ server' = [server EXCEPT !.down = Tail(@)]
      /\ UNCHANGED <<applied, count>>

-----------------------------------------------------------------------------
(* The server.  Requests of a connection that has ended may still arrive   *)
(* until the next one is established; what it sends is then lost.          *)

Data(data) == [kind |-> "data", data |-> data]
Answer(put, status) == [kind |-> "answer", id |-> put.id, status |-> status]

Sent(messages) == IF c.phase = "open" THEN server.down \o messages ELSE << >>

Told(data) == IF server.listening THEN <<Data(data)>> ELSE << >>

Asks(kind) == c.up # << >> /\ Head(c.up).kind = kind

ServerListens ==
  LET request == Head(c.up)
  IN  /\ Asks("listen")
      /\ c' = [c EXCEPT !.up = Tail(@)]
      /\ server' = [server EXCEPT
           !.listening = c.phase = "open",
           !.down = Sent((IF request.hash = server.value THEN << >>
                          ELSE <<Data(server.value)>>) \o <<[kind |-> "listening"]>>)]
      /\ UNCHANGED <<applied, count>>

(* A put is applied if it has no hash or the right one.                    *)
ServerHandlesPut ==
  LET put   == Head(c.up).put
      right == put.hash \in {NoHash, At(server.value, DOMAIN put.data)}
  IN  /\ Asks("put")
      /\ c' = [c EXCEPT !.up = Tail(@)]
      /\ \/ /\ right
            /\ server' = [server EXCEPT
                 !.value = Over(put.data, @),
                 !.down = Sent(Told(put.data) \o <<Answer(put, "ok")>>)]
            /\ applied' = [t \in Txns |-> applied[t] + IF t \in Range(put.txns) THEN 1 ELSE 0]
            /\ UNCHANGED count
         \/ /\ ~right
            /\ server' = [server EXCEPT !.down = Sent(<<Answer(put, "datastale")>>)]
            /\ UNCHANGED <<applied, count>>
         \/ /\ Count("events", MaxEvents)
            /\ server' = [server EXCEPT !.down = Sent(<<Answer(put, "permission_denied")>>)]
            /\ UNCHANGED applied

(* Another client writes a leaf.                                           *)
OthersChange(leaf) ==
  LET data == [l \in {leaf} |-> [base |-> -(count.changes + 1), txns |-> {}]]
  IN  /\ Count("changes", MaxChanges)
      /\ server' = [server EXCEPT !.value = Over(data, @), !.down = Sent(Told(data))]
      /\ UNCHANGED <<c, applied>>

-----------------------------------------------------------------------------
(* At the start the application has called onValue() at the top.           *)
Init ==
  /\ c = [phase |-> "scheduled", first |-> TRUE, reasons |-> {}, online |-> TRUE,
          puts |-> << >>, up |-> << >>, cache |-> Untouched, complete |-> FALSE,
          writes |-> << >>, queue |-> << >>, txn |-> [t \in Txns |-> NewTransaction],
          nextId |-> 1]
  /\ server = [value |-> Untouched, listening |-> FALSE, down |-> << >>]
  /\ applied = [t \in Txns |-> 0]
  /\ count = [sets |-> 0, changes |-> 0, events |-> 0]

Next ==
  \/ \E path \in Paths : SetValue(path) \/ \E t \in Txns : StartTransaction(t, path)
  \/ \E leaf \in Leaves : OthersChange(leaf)
  \/ GoOffline \/ GoOnline \/ BrowserGoesOffline \/ BrowserGoesOnline
  \/ TimerFires \/ ConnectionIsReady \/ ConnectionIsLost \/ ServerKills
  \/ Receive \/ ServerListens \/ ServerHandlesPut

Spec == Init /\ [][Next]_vars

-----------------------------------------------------------------------------
(* A transaction that is reported as committed was applied once, one that  *)
(* is reported as aborted was not; only one that was cut off by a lost     *)
(* connection may be either.  Nothing is applied twice.                    *)
OutcomesAreTrue ==
  \A t \in Txns :
    /\ applied[t] <= 1
    /\ c.txn[t].outcome = "committed" => applied[t] = 1
    /\ c.txn[t].outcome \in {"set", "maxretry", "nodata", "permission_denied"}
         => applied[t] = 0

(* What a transaction replaces is what its update function was run on:     *)
(* "If another client writes to the location before your new value is      *)
(* successfully written, your update function will be called again".       *)
KeepsWhatItReplaces(t) ==
  applied'[t] > applied[t] =>
    \A l \in c.txn[t].path :
      /\ server'.value[l].base = server.value[l].base
      /\ server.value[l].txns \subseteq server'.value[l].txns

NoLostUpdate == [][\A t \in Txns : KeepsWhatItReplaces(t)]_vars

(* The same where all transactions are at one location.                    *)
NoLostUpdateAtOneLocation ==
  [][\A t \in Txns :
       (\A u \in Txns : c.txn[u].path \in {{}, c.txn[t].path})
         => KeepsWhatItReplaces(t)]_vars

(* On an open connection every outstanding put awaits exactly one answer,  *)
(* and they come in the order of the puts.                                 *)
PutsAwaitAnswers ==
  c.phase = "open" =>
    LET ids(s) == [i \in DOMAIN s |-> s[i].id]
        answers == Filter(server.down,
                          {m \in Range(server.down) : m.kind = "answer"})
        sent    == Filter(c.up, {r \in Range(c.up) : r.kind = "put"})
    IN  ids(c.puts) = ids(answers) \o [i \in DOMAIN sent |-> sent[i].put.id]

(* The client never rests without a connection that it should have.        *)
NeverStuck == ShouldReconnect(c) => c.phase # "idle"

(* "Used when an already-sent transaction needs to be aborted (e.g. due to *)
(* a conflicting set() call that was made). If it comes back as            *)
(* unsuccessful, we'll abort it.": a transaction that was started and has  *)
(* not settled is in the queue or its put is outstanding, and the pending  *)
(* writes are those of such transactions and of outstanding sets.          *)
NoneForgotten ==
  LET unsettled == {t \in Txns : c.txn[t].outcome = "none" /\ c.txn[t] # NewTransaction}
      sets      == Filter(c.puts, {put \in Range(c.puts) : put.txns = << >>})
  IN  /\ \A t \in unsettled :
           \/ t \in Range(c.queue)
           \/ \E i \in DOMAIN c.puts : t \in Range(c.puts[i].txns)
      /\ {c.writes[i].id : i \in DOMAIN c.writes} =
           {c.txn[t].write : t \in unsettled} \cup {sets[i].write : i \in DOMAIN sets}

(* In the end every transaction has been reported and every set answered,  *)
(* unless the application or the server keeps the client offline.          *)
AllSettled ==
  /\ c.puts = << >>
  /\ \A t \in Txns : c.txn[t] # NewTransaction => c.txn[t].outcome # "none"

EventuallySettled == <>[]ShouldReconnect(c) => <>[]AllSettled

(* The connection comes about, the server works and its messages arrive:   *)
(* weak fairness, with what enables an action written out.                 *)
FairSpec ==
  /\ Spec
  /\ []<>(c.phase # "scheduled") \/ []<><<TimerFires>>_vars
  /\ []<>(c.phase # "connecting") \/ []<><<ConnectionIsReady>>_vars
  /\ []<>~MessageArrives \/ []<><<Receive>>_vars
  /\ []<>~Asks("listen") \/ []<><<ServerListens>>_vars
  /\ []<>~Asks("put") \/ []<><<ServerHandlesPut>>_vars

=============================================================================
