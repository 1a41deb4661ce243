------------------------------ MODULE MultiTab ------------------------------
(***************************************************************************)
(* Several tabs of one browser that share a Firestore cache, packages/     *)
(* firestore/src: the primary lease (local/indexeddb_persistence.ts), what *)
(* SyncEngine and RemoteStore do of it (core/sync_engine_impl.ts, remote/  *)
(* remote_store.ts) and the news about mutation batches that tabs send     *)
(* each other through WebStorage (local/shared_client_state.ts).           *)
(*                                                                         *)
(* IndexedDB transactions of all tabs are serialized, so an action is one  *)
(* task of one tab's AsyncQueue with its transaction.  Retryable tasks     *)
(* (storage events, changes of the primary state) keep their order and may *)
(* fail and be retried, which only delays them; other tasks overtake them. *)
(* All tabs allow synchronization, belong to one user, and none forces     *)
(* ownership.  Batches are handled in the order of their ids, so the       *)
(* mutation queue and the write pipeline are sets of ids; the write stream *)
(* is reduced to the batches it was given and those of them that the       *)
(* backend has answered (see WritePipeline).                               *)
(*                                                                         *)
(* Time is the age of the lease and of each tab's metadata, counted in     *)
(* refresh intervals and only up to one more than the oldest that counts.  *)
(***************************************************************************)
EXTENDS Integers, Sequences, FiniteSets, SequencesExt

CONSTANTS
  Tabs,
  NoLease,    \* no entry in the store of the primary client
  Throttled,  \* the tabs whose timers the browser may delay
  Visible,    \* the tabs that open in the foreground
  MaxBatches, \* bound: writes
  MaxOps,     \* bound: retryable tasks that wait when the lease is looked at
  MaxEvents   \* bound: tabs closed or crashed, switches, broken streams

ASSUME BoundsAssumption ==
  /\ MaxBatches \in Nat /\ MaxOps \in Nat /\ MaxEvents \in Nat
  /\ Throttled \subseteq Tabs /\ Visible \subseteq Tabs


VARIABLES
  db,       \* IndexedDB: lease, client metadata, mutation queue, last batch id
  zombies,  \* WebStorage: tabs marked as zombied
  tab,      \* the state of every tab
  committed,  \* the batches that the backend has committed
  events,   \* how many of the bounded events have happened
  untold    \* history: batches whose acknowledgement died with its tab

vars == <<db, zombies, tab, committed, events, untold>>

MaxAge == 1
Ages == 0..MaxAge + 1

Leases == [owner : Tabs, age : Ages]
ASSUME NoLeaseAssumption == NoLease \notin Leases

Bounded == events < MaxEvents /\ events' = events + 1

NewTab(t) ==
  [life |-> "new", isPrimary |-> FALSE, engine |-> FALSE, network |-> TRUE,
   visible |-> t \in Visible, ops |-> << >>, cached |-> {}, promises |-> {},
   pipeline |-> {}, answered |-> {}]

HasRoom(t) == Len(tab[t].ops) < MaxOps

(* A tab that is closing works until its shutdown gets its turn.           *)
Running(t) == tab[t].life \in {"open", "closing"}

(* The pagehide event also removes its listener for storage events.        *)
Listens(t) == tab[t].life = "open"

-----------------------------------------------------------------------------
(* Reading the shared state.                                               *)

(* How lease and metadata look to a tab: d is the value of db.         *)
LeaseIsValid(d) ==
  /\ d.lease # NoLease
  /\ d.lease.age <= MaxAge
  /\ d.lease.owner \notin zombies

IsOwner(d, t) == d.lease # NoLease /\ d.lease.owner = t

(* filterActiveClients                                                     *)
ActiveClients(d) == {t \in DOMAIN d.meta : d.meta[t].age <= MaxAge /\ t \notin zombies}

(* Whether another client is better suited than one in state s.            *)
IsPreferred(s, other) ==
  \/ ~s.network /\ other.network
  \/ ~s.visible /\ other.visible /\ s.network = other.network

(* Mutant: a visible tab does not care who holds the lease.                *)
CanActWhenVisible(d, t, s) ==
  \/ s.network /\ s.visible
  \/ /\ LeaseIsValid(d) => IsOwner(d, t)
     /\ \/ LeaseIsValid(d) /\ s.network
        \/ ~\E u \in ActiveClients(d) \ {t} : IsPreferred(s, d.meta[u])

CanActAsPrimary(d, t, s) ==
  /\ LeaseIsValid(d) => IsOwner(d, t)
  /\ \/ LeaseIsValid(d) /\ s.network
     \/ s.network /\ s.visible
     \/ ~\E u \in ActiveClients(d) \ {t} : IsPreferred(s, d.meta[u])

Held(d, t) == [d EXCEPT !.lease = [owner |-> t, age |-> 0]]

(* releasePrimaryLeaseIfHeld                                               *)
Released(d, t) == IF IsOwner(d, t) THEN [d EXCEPT !.lease = NoLease] ELSE d

-----------------------------------------------------------------------------
(* The tab's own state; s is tab[t], a method returns what it leaves.      *)

PrimaryOp(value) == [kind |-> "primary", value |-> value]
BatchOp(state, batch) == [kind |-> state, batch |-> batch]

(* isPrimary changes, and the listener is told in a task of its own.       *)
SetPrimary(s, value) ==
  [s EXCEPT !.isPrimary = value, !.ops = Append(@, PrimaryOp(value))]

(* Mutant: a transaction that finds the lease lost does not tell.          *)
LoseSilently(s) == [s EXCEPT !.isPrimary = FALSE]

(* What runTransaction does before it throws PRIMARY_LEASE_LOST.           *)
LoseLease(s) == SetPrimary(s, FALSE)

(* updateClientMetadataAndTryBecomePrimary: the database and the tab that  *)
(* it leaves.                                                              *)
Metadata(s) == [age |-> 0, network |-> s.network, visible |-> s.visible]

RefreshLease(d, t, s) ==
  LET put     == [d EXCEPT !.meta = [u \in DOMAIN @ \cup {t} |->
                                       IF u = t THEN Metadata(s) ELSE @[u]]]
      checked == IF s.isPrimary /\ ~IsOwner(put, t) THEN SetPrimary(s, FALSE) ELSE s
      can     == CanActAsPrimary(put, t, checked)
  IN  [db  |-> IF can THEN Held(put, t)
               ELSE IF checked.isPrimary THEN Released(put, t) ELSE put,
       tab |-> IF can = checked.isPrimary THEN checked ELSE SetPrimary(checked, can)]

After(batches, pipeline) == {b \in batches : \A p \in pipeline : b > p}

(* Mutant: only the newest batch is taken.                                 *)
FillNewest(d, s) ==
  IF s.engine /\ s.network
    THEN [s EXCEPT !.pipeline = @ \cup {b \in After(d.queue, @) : b = d.last}]
    ELSE s

(* fillWritePipeline: the batches after the last one in the pipeline.      *)
Fill(d, s) ==
  IF s.engine /\ s.network
    THEN [s EXCEPT !.pipeline = @ \cup After(d.queue, @)]
    ELSE s

StreamClosed(s) == [s EXCEPT !.pipeline = {}, !.answered = {}]

(* syncEngineApplyPrimaryState and remoteStoreApplyPrimaryState, for       *)
(* writes; what they do to listens is left out.                            *)
ApplyPrimaryState(d, s, isPrimary) ==
  IF isPrimary = s.engine THEN s
  ELSE IF isPrimary THEN Fill(d, [s EXCEPT !.engine = TRUE])
  ELSE StreamClosed([s EXCEPT !.engine = FALSE])

(* Mutant: news of a pending batch does not reach the pipeline.            *)
PendingUnsent(d, s, state, batch) ==
  IF batch \notin s.cached \cup d.queue THEN s
  ELSE IF state = "pending" THEN [s EXCEPT !.cached = @ \cup {batch}]
  ELSE [s EXCEPT !.promises = @ \ {batch}, !.cached = @ \ {batch}]

(* syncEngineApplyBatchState; a batch that was never seen is ignored.      *)
ApplyBatchState(d, s, state, batch) ==
  IF batch \notin s.cached \cup d.queue THEN s
  ELSE IF state = "pending" THEN Fill(d, [s EXCEPT !.cached = @ \cup {batch}])
  ELSE [s EXCEPT !.promises = @ \ {batch}, !.cached = @ \ {batch}]

(* Mutant: only the primary tab listens to the others.                     *)
PrimaryTold(tabs, from, op) ==
  [t \in Tabs |-> IF t # from /\ Listens(t) /\ tabs[t].isPrimary
                    THEN [tabs[t] EXCEPT !.ops = Append(@, op)] ELSE tabs[t]]

(* A change in WebStorage is an event in every other tab that listens.     *)
Told(tabs, from, op) ==
  [t \in Tabs |-> IF t # from /\ Listens(t)
                    THEN [tabs[t] EXCEPT !.ops = Append(@, op)] ELSE tabs[t]]

-----------------------------------------------------------------------------
(* Tasks of a tab.                                                         *)

(* Start of a tab: persistence, which takes itself for hidden until it has *)
(* looked at the lease, then shared state, then the first call of the      *)
(* primary state listener with what the start has found.                   *)
Open(t) ==
  LET r == RefreshLease(db, t, [tab[t] EXCEPT !.life = "open", !.visible = FALSE])
      s == [r.tab EXCEPT !.ops = << >>, !.visible = tab[t].visible]
  IN  /\ tab[t].life = "new"
      /\ db' = r.db
      /\ tab' = [tab EXCEPT ![t] = ApplyPrimaryState(r.db, s, s.isPrimary)]
      /\ UNCHANGED <<zombies, committed, events, untold>>

RefreshIsDue(t) ==
  /\ Running(t) /\ HasRoom(t)
  /\ t \in DOMAIN db.meta => db.meta[t] # Metadata(tab[t])

(* The refresh by its timer, or at once after a switch of the network.     *)
Refresh(t) ==
  LET r == RefreshLease(db, t, tab[t])
  IN  /\ RefreshIsDue(t)
      /\ db' = r.db
      /\ tab' = [tab EXCEPT ![t] = r.tab]
      /\ UNCHANGED <<zombies, committed, events, untold>>

(* maybeGarbageCollectMultiClientState: removes the metadata of clients    *)
(* that are zombied or were not heard of for half an hour, and then their  *)
(* zombie entries.                                                         *)
CollectClients(t) ==
  LET silent == {u \in DOMAIN db.meta : db.meta[u].age > MaxAge}
  IN  /\ Running(t) /\ tab[t].isPrimary /\ HasRoom(t)
      /\ IF IsOwner(db, t) \/ CanActAsPrimary(db, t, tab[t])
           THEN \E old \in SUBSET silent :
                  LET gone == old \cup (DOMAIN db.meta \cap zombies)
                  IN  /\ gone # {}
                      /\ db' = Held([db EXCEPT !.meta =
                                       [u \in DOMAIN @ \ gone |-> @[u]]], t)
                      /\ zombies' = zombies \ gone
                      /\ UNCHANGED tab
           ELSE /\ tab' = [tab EXCEPT ![t] = LoseLease(@)]
                /\ UNCHANGED <<db, zombies>>
      /\ UNCHANGED <<committed, events, untold>>

(* The next retryable task.  A storage event that a closing tab had queued *)
(* is put aside (earlyEvents).                                             *)
RunOp(t) ==
  LET op == Head(tab[t].ops)
      s  == [tab[t] EXCEPT !.ops = Tail(@)]
  IN  /\ Running(t)
      /\ tab[t].ops # << >>
      /\ tab' = [tab EXCEPT ![t] =
                   IF op.kind = "primary" THEN ApplyPrimaryState(db, s, op.value)
                   ELSE IF Listens(t) THEN ApplyBatchState(db, s, op.kind, op.batch)
                   ELSE s]
      /\ UNCHANGED <<db, zombies, committed, events, untold>>

(* syncEngineWrite                                                         *)
Write(t) ==
  LET b == db.last + 1
      d == [db EXCEPT !.queue = @ \cup {b}, !.last = b]
      s == [tab[t] EXCEPT !.cached = @ \cup {b}, !.promises = @ \cup {b}]
  IN  /\ tab[t].life = "open"
      /\ b <= MaxBatches
      /\ db' = d
      /\ tab' = Told([tab EXCEPT ![t] = Fill(d, s)], t, BatchOp("pending", b))
      /\ UNCHANGED <<zombies, committed, events, untold>>

IsOldest(b, batches) == b \in batches /\ \A other \in batches : b <= other

IsSending(t) == Running(t) /\ tab[t].pipeline # tab[t].answered

(* The backend commits what a tab sent it next, whoever sent it before.    *)
BackendCommits(t) ==
  \E b \in tab[t].pipeline :
    /\ Running(t)
    /\ IsOldest(b, tab[t].pipeline \ tab[t].answered)
    /\ committed' = committed \cup {b}
    /\ tab' = [tab EXCEPT ![t].answered = @ \cup {b}]
    /\ UNCHANGED <<db, zombies, events, untold>>

(* onMutationResult: the front of the pipeline is acknowledged in a        *)
(* transaction of the primary.  A tab that lost the lease ignores it; one  *)
(* whose batch is gone fails an assertion, which ends its AsyncQueue.      *)
IsAnswered(t) == Running(t) /\ HasRoom(t) /\ tab[t].answered # {}

Popped(s, b) == [s EXCEPT !.pipeline = @ \ {b}, !.answered = @ \ {b}]

Acknowledged(d, t, b) == Held([d EXCEPT !.queue = @ \ {b}], t)

OnResultOf(t, b) ==
  LET s == Popped(tab[t], b)
      d == Acknowledged(db, t, b)
      done == [s EXCEPT !.promises = @ \ {b}, !.cached = @ \ {b}]
  IN  /\ IsAnswered(t) /\ IsOldest(b, tab[t].pipeline)
      /\ \/ /\ ~IsOwner(db, t) /\ ~CanActAsPrimary(db, t, s)
            /\ tab' = [tab EXCEPT ![t] = Fill(db, LoseLease(s))]
            /\ UNCHANGED <<db, events, untold>>
         \/ /\ IsOwner(db, t) \/ CanActAsPrimary(db, t, s)
            /\ b \in db.queue
            /\ db' = d
            /\ \/ /\ tab' = Told([tab EXCEPT ![t] = Fill(d, done)], t,
                                 BatchOp("acknowledged", b))
                  /\ UNCHANGED <<events, untold>>
               \/ /\ Bounded
                  /\ tab' = [tab EXCEPT ![t].life = "dead"]
                  /\ untold' = untold \cup {b}
         \/ /\ IsOwner(db, t) \/ CanActAsPrimary(db, t, s)
            /\ b \notin db.queue
            /\ tab' = [tab EXCEPT ![t].life = "failed"]
            /\ UNCHANGED <<db, events, untold>>
      /\ UNCHANGED <<zombies, committed>>

OnMutationResult(t) == \E b \in tab[t].pipeline : OnResultOf(t, b)

(* enableNetwork() and disableNetwork(): the persistence layer is told     *)
(* first and refreshes the lease in a task of its own.                     *)
SwitchNetwork(t) ==
  LET s == tab[t]
  IN  /\ s.life = "open"
      /\ Bounded
      /\ tab' = [tab EXCEPT ![t] =
                   IF s.network THEN StreamClosed([s EXCEPT !.network = FALSE])
                   ELSE Fill(db, [s EXCEPT !.network = TRUE])]
      /\ UNCHANGED <<db, zombies, committed, untold>>

(* The visibility handler switches and refreshes in one task.              *)
SwitchVisibility(t) ==
  LET r == RefreshLease(db, t, [tab[t] EXCEPT !.visible = ~@])
  IN  /\ tab[t].life = "open" /\ HasRoom(t)
      /\ Bounded
      /\ db' = r.db
      /\ tab' = [tab EXCEPT ![t] = r.tab]
      /\ UNCHANGED <<zombies, committed, untold>>

(* The write stream breaks: what it owes is sent again.                    *)
StreamBreaks(t) ==
  /\ Running(t) /\ tab[t].answered # {}
  /\ Bounded
  /\ tab' = [tab EXCEPT ![t].answered = {}]
  /\ UNCHANGED <<db, zombies, committed, untold>>

(* pagehide: the tab is marked and stops to listen at once, its shutdown   *)
(* has to wait.                                                            *)
Close(t) ==
  /\ tab[t].life = "open"
  /\ Bounded
  /\ zombies' = zombies \cup {t}
  /\ tab' = [tab EXCEPT ![t].life = "closing"]
  /\ UNCHANGED <<db, committed, untold>>

(* shutdown()                                                              *)
Shutdown(t) ==
  /\ tab[t].life = "closing"
  /\ db' = [Released(db, t) EXCEPT !.meta = [u \in DOMAIN @ \ {t} |-> @[u]]]
  /\ zombies' = zombies \ {t}
  /\ tab' = [tab EXCEPT ![t].life = "dead"]
  /\ UNCHANGED <<committed, events, untold>>

(* A tab ends without notice, or before its shutdown ran.                  *)
Die(t) ==
  /\ \/ tab[t].life = "open" /\ Bounded
     \/ tab[t].life = "closing" /\ UNCHANGED events
  /\ tab' = [tab EXCEPT ![t].life = "dead"]
  /\ UNCHANGED <<db, zombies, committed, untold>>

(* Time passes; a tab whose timers are not throttled refreshes in time.    *)
Older(age) == IF age > MaxAge THEN age ELSE age + 1
Aged(record) == [record EXCEPT !.age = Older(@)]

Tick ==
  /\ \A t \in Tabs \ Throttled :
       Running(t) /\ t \in DOMAIN db.meta => db.meta[t].age = 0
  /\ db' = [db EXCEPT
              !.lease = IF @ = NoLease THEN @ ELSE Aged(@),
              !.meta  = [t \in DOMAIN @ |-> Aged(@[t])]]
  /\ db' # db
  /\ UNCHANGED <<zombies, tab, committed, events, untold>>

-----------------------------------------------------------------------------
Init ==
  /\ db = [lease |-> NoLease, meta |-> << >>, queue |-> {}, last |-> 0]
  /\ zombies = {}
  /\ tab = [t \in Tabs |-> NewTab(t)]
  /\ committed = {}
  /\ events = 0
  /\ untold = {}

Task(t) ==
  Open(t) \/ Refresh(t) \/ CollectClients(t) \/ RunOp(t) \/ Write(t)
    \/ OnMutationResult(t) \/ SwitchNetwork(t) \/ SwitchVisibility(t)

Next ==
  \/ \E t \in Tabs : Task(t) \/ BackendCommits(t) \/ StreamBreaks(t)
                      \/ Close(t) \/ Shutdown(t) \/ Die(t)
  \/ Tick

Spec == Init /\ [][Next]_vars

-----------------------------------------------------------------------------
Metadatas == [age : Ages, network : BOOLEAN, visible : BOOLEAN]

Ops ==
  [kind : {"primary"}, value : BOOLEAN]
    \cup [kind : {"pending", "acknowledged"}, batch : Nat]

TabStates ==
  [life : {"new", "open", "closing", "dead", "failed"}, isPrimary : BOOLEAN,
   engine : BOOLEAN, network : BOOLEAN, visible : BOOLEAN, ops : Seq(Ops),
   cached : SUBSET Nat, promises : SUBSET Nat,
   pipeline : SUBSET Nat, answered : SUBSET Nat]

IsDatabase(d) ==
  /\ d \in [lease : Leases \cup {NoLease},
            meta : [DOMAIN d.meta -> Metadatas], queue : SUBSET Nat, last : Nat]
  /\ DOMAIN d.meta \subseteq Tabs

(* The types of the variables.                                             *)
TypeOK ==
  /\ IsDatabase(db)
  /\ tab \in [Tabs -> TabStates]
  /\ zombies \subseteq Tabs
  /\ committed \subseteq Nat /\ untold \subseteq Nat
  /\ events \in 0..MaxEvents

(* No write is lost or skipped on the way through takeovers: what left the *)
(* queue was committed, and the backend has first seen the writes in the   *)
(* order in which they were made, whichever tabs sent them.                *)
NoWriteLost ==
  /\ 1..db.last \ db.queue \subseteq committed
  /\ \A b \in committed : 1..b \subseteq committed

(* The SyncEngine of a tab ends up where the lease is: its last change of  *)
(* the primary state, in effect or on its way, is what persistence knows.  *)
Changes(s) == {i \in DOMAIN s.ops : s.ops[i].kind = "primary"}

FollowsLease(s) ==
  IF Changes(s) = {} THEN s.engine = s.isPrimary
  ELSE \E i \in Changes(s) :
         (\A j \in Changes(s) : j <= i) /\ s.ops[i].value = s.isPrimary

EngineFollowsLease == \A t \in Tabs : Running(t) => FollowsLease(tab[t])

(* The promise of a write in an open tab is kept: the write is still in    *)
(* the queue, or the news that it was acknowledged is on its way.  Only a  *)
(* tab that dies between its transaction and the news breaks it.  A tab    *)
(* that is closing hears no news any more.                                 *)
PromisesHeard ==
  \A t \in Tabs :
    Listens(t) =>
      \A b \in tab[t].promises :
        \/ b \in db.queue \cup untold
        \/ BatchOp("acknowledged", b) \in Range(tab[t].ops)

(* A lease is only taken from a tab that let it lapse, was marked as       *)
(* zombied, or gave it up itself.                                          *)
LeaseNotStolen ==
  [][LeaseIsValid(db) =>
       \/ db'.lease # NoLease /\ db'.lease.owner = db.lease.owner
       \/ db'.lease = NoLease /\ tab'[db.lease.owner] # tab[db.lease.owner]]_vars

(* removeMutationBatch's hardAssert "Dangling document-mutation reference  *)
(* found: Missing batch": a batch is only acknowledged while it exists.    *)
QueueNeverFails == \A t \in Tabs : tab[t].life # "failed"

(* In the end one tab acts as primary and everything that was written is   *)
(* committed, if a tab whose timers are on time stays open with the        *)
(* network on, and every tab works off its tasks.  A throttled tab is not  *)
(* enough: a tab without network that is on time takes each lapsed lease   *)
(* and hands it back.                                                      *)
Serves(t) == tab[t].life = "open" /\ tab[t].network

OnePrimary ==
  Cardinality({t \in Tabs : Running(t) /\ tab[t].engine}) = 1

EventuallyOnePrimary ==
  (\E t \in Tabs \ Throttled : <>[]Serves(t)) => <>[](OnePrimary /\ db.queue = {})

FairSpec ==
  /\ Spec
  /\ \A t \in Tabs :
       /\ []<>~RefreshIsDue(t) \/ []<><<Refresh(t)>>_vars
       /\ []<>~(Running(t) /\ tab[t].ops # << >>) \/ []<><<RunOp(t)>>_vars
       /\ []<>~IsSending(t) \/ []<><<BackendCommits(t)>>_vars
       /\ []<>~IsAnswered(t) \/ []<><<OnMutationResult(t)>>_vars
       /\ WF_vars(Shutdown(t))
  /\ WF_vars(Tick)

=============================================================================
