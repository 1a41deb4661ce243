--------------------------- MODULE MultiTabProofs ---------------------------
(***************************************************************************)
(* What MultiTab promises, for every number of tabs and every bound: its   *)
(* types, that a lease is not stolen, that no write is lost, that the      *)
(* SyncEngine of a tab follows the lease and that promises are kept.       *)
(*                                                                         *)
(* The operators on a tab's record come first, with what they keep; then   *)
(* one invariant per property, and for each of them a proof that has one   *)
(* step per action.                                                        *)
(***************************************************************************)
EXTENDS MultiTab, TLAPS

LifeStates == {"new", "open", "closing", "dead", "failed"}

-----------------------------------------------------------------------------
(* Types of the operators.                                                 *)

(* A change of the primary state is appended to the tasks of the tab.      *)
LEMMA SetPrimaryTyped ==
  ASSUME NEW s \in TabStates, NEW value \in BOOLEAN
  PROVE  SetPrimary(s, value) \in TabStates
  <1>1. PrimaryOp(value) \in Ops
    BY DEF PrimaryOp, Ops
  <1>2. Append(s.ops, PrimaryOp(value)) \in Seq(Ops)
    BY <1>1 DEF TabStates
  <1>. QED BY <1>2 DEF SetPrimary, TabStates

(* The metadata of a tab are a typed record.                               *)
LEMMA MetadataTyped ==
  ASSUME NEW s \in TabStates
  PROVE  Metadata(s) \in Metadatas
  BY DEF Metadata, Metadatas, TabStates, Ages, MaxAge

(* Taking and releasing the lease changes nothing else in the database.    *)
LEMMA HeldTyped ==
  ASSUME NEW d, IsDatabase(d), NEW t \in Tabs
  PROVE  /\ IsDatabase(Held(d, t))
         /\ Held(d, t).lease = [owner |-> t, age |-> 0]
         /\ Held(d, t).queue = d.queue
         /\ Held(d, t).last = d.last
  <1>1. [owner |-> t, age |-> 0] \in Leases
    BY DEF Leases, Ages, MaxAge
  <1>. QED BY <1>1 DEF Held, IsDatabase

LEMMA ReleasedTyped ==
  ASSUME NEW d, IsDatabase(d), NEW t \in Tabs
  PROVE  /\ IsDatabase(Released(d, t))
         /\ Released(d, t).lease = IF IsOwner(d, t) THEN NoLease ELSE d.lease
         /\ Released(d, t).queue = d.queue
         /\ Released(d, t).last = d.last
  BY DEF Released, IsDatabase

(* What a refresh may change of the tab: its belief that it is primary and *)
(* its tasks, to which changes of the primary state are appended.          *)
SameButPrimary(s, r) ==
  /\ r.life = s.life /\ r.engine = s.engine
  /\ r.network = s.network /\ r.visible = s.visible
  /\ r.cached = s.cached /\ r.promises = s.promises
  /\ r.pipeline = s.pipeline /\ r.answered = s.answered

LEMMA SetPrimarySame ==
  ASSUME NEW s \in TabStates, NEW value \in BOOLEAN
  PROVE  /\ SameButPrimary(s, SetPrimary(s, value))
         /\ SetPrimary(s, value).isPrimary = value
         /\ SetPrimary(s, value).ops = Append(s.ops, PrimaryOp(value))
  BY DEF SetPrimary, SameButPrimary, TabStates

(* A refresh keeps the types, leaves the queue alone, ends with a lease    *)
(* that is the tab's, or no lease that was the tab's and a tab that has    *)
(* noticed, or the lease as it was; the lease of another tab is only taken *)
(* when it is not valid.                                                   *)
LEMMA RefreshLeaseTyped ==
  ASSUME NEW t \in Tabs, NEW s \in TabStates, IsDatabase(db)
  PROVE  LET r == RefreshLease(db, t, s)
         IN  /\ IsDatabase(r.db)
             /\ r.tab \in TabStates
             /\ SameButPrimary(s, r.tab)
             /\ r.db.queue = db.queue
             /\ r.db.last = db.last
             /\ \/ r.db.lease = db.lease
                \/ /\ LeaseIsValid(db) => IsOwner(db, t)
                   /\ r.db.lease = [owner |-> t, age |-> 0]
                \/ /\ IsOwner(db, t) /\ r.db.lease = NoLease
                   /\ s.isPrimary /\ ~r.tab.isPrimary
             /\ \/ r.tab = s
                \/ \E v \in BOOLEAN : r.tab = SetPrimary(s, v)
                \/ \E v, w \in BOOLEAN : r.tab = SetPrimary(SetPrimary(s, v), w)
  <1>. DEFINE put     == [db EXCEPT !.meta = [u \in DOMAIN @ \cup {t} |->
                                        IF u = t THEN Metadata(s) ELSE @[u]]]
              checked == IF s.isPrimary /\ ~IsOwner(put, t) THEN SetPrimary(s, FALSE) ELSE s
              can     == CanActAsPrimary(put, t, checked)
              r       == RefreshLease(db, t, s)
              rdb     == IF can THEN Held(put, t)
                         ELSE IF checked.isPrimary THEN Released(put, t) ELSE put
              rtab    == IF can = checked.isPrimary THEN checked ELSE SetPrimary(checked, can)
  <1>1. r.db = rdb /\ r.tab = rtab
    BY DEF RefreshLease
  <1>2. /\ IsDatabase(put)
        /\ put.lease = db.lease /\ put.queue = db.queue /\ put.last = db.last
    <2>1. [u \in DOMAIN db.meta \cup {t} |-> IF u = t THEN Metadata(s) ELSE db.meta[u]]
            \in [DOMAIN db.meta \cup {t} -> Metadatas]
      BY MetadataTyped DEF IsDatabase
    <2>. QED BY <2>1 DEF IsDatabase
  <1>3. /\ checked \in TabStates
        /\ SameButPrimary(s, checked)
        /\ checked = s \/ checked = SetPrimary(s, FALSE)
        /\ checked.isPrimary \in BOOLEAN
        /\ checked.isPrimary => s.isPrimary /\ checked = s
    BY SetPrimaryTyped, SetPrimarySame DEF SameButPrimary, TabStates
  <1>4. can \in BOOLEAN
    BY DEF CanActAsPrimary
  <1>5. LeaseIsValid(put) <=> LeaseIsValid(db)
    BY <1>2 DEF LeaseIsValid
  <1>6. IsOwner(put, t) <=> IsOwner(db, t)
    BY <1>2 DEF IsOwner
  <1>7. can => (LeaseIsValid(db) => IsOwner(db, t))
    BY <1>5, <1>6 DEF CanActAsPrimary
  <1>. HIDE DEF put, checked, can
  <1>8. /\ IsDatabase(rdb)
        /\ rdb.queue = db.queue /\ rdb.last = db.last
        /\ \/ rdb.lease = db.lease
           \/ /\ can /\ rdb.lease = [owner |-> t, age |-> 0]
           \/ /\ ~can /\ IsOwner(db, t) /\ rdb.lease = NoLease /\ checked.isPrimary
    BY <1>2, <1>4, <1>6, HeldTyped, ReleasedTyped
  <1>9. /\ rtab \in TabStates
        /\ SameButPrimary(s, rtab)
        /\ rtab = checked \/ rtab = SetPrimary(checked, can)
        /\ rtab.isPrimary = can
    BY <1>3, <1>4, SetPrimaryTyped, SetPrimarySame DEF SameButPrimary
  <1>10. \/ rtab = s
         \/ \E v \in BOOLEAN : rtab = SetPrimary(s, v)
         \/ \E v, w \in BOOLEAN : rtab = SetPrimary(SetPrimary(s, v), w)
    BY <1>3, <1>4, <1>9
  <1>. HIDE DEF rdb, rtab, r
  <1>11. \/ r.db.lease = db.lease
         \/ /\ LeaseIsValid(db) => IsOwner(db, t)
            /\ r.db.lease = [owner |-> t, age |-> 0]
         \/ /\ IsOwner(db, t) /\ r.db.lease = NoLease
            /\ s.isPrimary /\ ~r.tab.isPrimary
    BY <1>1, <1>3, <1>7, <1>8, <1>9
  <1>. QED BY <1>1, <1>8, <1>9, <1>10, <1>11 DEF r

(* Filling the pipeline changes nothing else.                              *)
LEMMA FillTyped ==
  ASSUME NEW d, IsDatabase(d), NEW s \in TabStates
  PROVE  /\ Fill(d, s) \in TabStates
         /\ \/ Fill(d, s) = s
            \/ Fill(d, s) = [s EXCEPT !.pipeline = @ \cup After(d.queue, @)]
  <1>1. After(d.queue, s.pipeline) \subseteq Nat
    BY DEF After, IsDatabase
  <1>. QED BY <1>1 DEF Fill, TabStates

(* So do the end of a stream and the change of the primary state.          *)
LEMMA StreamClosedTyped ==
  ASSUME NEW s \in TabStates
  PROVE  StreamClosed(s) \in TabStates
  BY DEF StreamClosed, TabStates

LEMMA ApplyPrimaryStateTyped ==
  ASSUME NEW d, IsDatabase(d), NEW s \in TabStates, NEW value \in BOOLEAN
  PROVE  /\ ApplyPrimaryState(d, s, value) \in TabStates
         /\ ApplyPrimaryState(d, s, value).engine = value
         /\ \/ ApplyPrimaryState(d, s, value) = s
            \/ ApplyPrimaryState(d, s, value) = Fill(d, [s EXCEPT !.engine = TRUE])
            \/ ApplyPrimaryState(d, s, value) = StreamClosed([s EXCEPT !.engine = FALSE])
  <1>1. /\ [s EXCEPT !.engine = TRUE] \in TabStates
        /\ [s EXCEPT !.engine = FALSE] \in TabStates
        /\ s.engine \in BOOLEAN
    BY DEF TabStates
  <1>2. /\ Fill(d, [s EXCEPT !.engine = TRUE]).engine = TRUE
        /\ StreamClosed([s EXCEPT !.engine = FALSE]).engine = FALSE
    BY <1>1 DEF Fill, StreamClosed, TabStates
  <1>. QED BY <1>1, <1>2, FillTyped, StreamClosedTyped DEF ApplyPrimaryState

LEMMA ApplyBatchStateTyped ==
  ASSUME NEW d, IsDatabase(d), NEW s \in TabStates, NEW state, NEW b \in Nat
  PROVE  ApplyBatchState(d, s, state, b) \in TabStates
  <1>1. /\ [s EXCEPT !.cached = @ \cup {b}] \in TabStates
        /\ [s EXCEPT !.promises = @ \ {b}, !.cached = @ \ {b}] \in TabStates
    BY DEF TabStates
  <1>. QED BY <1>1, FillTyped DEF ApplyBatchState

(* News are appended to the tasks of other tabs that run.                  *)
LEMMA ToldTyped ==
  ASSUME NEW tabs \in [Tabs -> TabStates], NEW from \in Tabs,
         NEW state \in {"pending", "acknowledged"}, NEW b \in Nat
  PROVE  Told(tabs, from, BatchOp(state, b)) \in [Tabs -> TabStates]
  <1>1. BatchOp(state, b) \in Ops
    BY DEF BatchOp, Ops
  <1>2. ASSUME NEW t \in Tabs
        PROVE  [tabs[t] EXCEPT !.ops = Append(@, BatchOp(state, b))] \in TabStates
    <2>1. tabs[t] \in TabStates /\ Append(tabs[t].ops, BatchOp(state, b)) \in Seq(Ops)
      BY <1>1 DEF TabStates
    <2>. QED BY <2>1 DEF TabStates
  <1>. QED BY <1>2 DEF Told

LEMMA ToldSame ==
  ASSUME NEW tabs \in [Tabs -> TabStates], NEW from \in Tabs,
         NEW state \in {"pending", "acknowledged"}, NEW b \in Nat, NEW t \in Tabs
  PROVE  LET r == Told(tabs, from, BatchOp(state, b))[t]
         IN  /\ SameButPrimary(tabs[t], r)
             /\ r.isPrimary = tabs[t].isPrimary
             /\ r.ops = IF t # from /\ Listens(t)
                          THEN Append(tabs[t].ops, BatchOp(state, b)) ELSE tabs[t].ops
  <1>1. tabs[t] \in TabStates
    OBVIOUS
  <1>2. \A ops : LET r == [tabs[t] EXCEPT !.ops = ops]
                 IN  /\ SameButPrimary(tabs[t], r)
                     /\ r.isPrimary = tabs[t].isPrimary /\ r.ops = ops
    BY <1>1 DEF SameButPrimary, TabStates
  <1>3. CASE t # from /\ Listens(t)
    <2>1. Told(tabs, from, BatchOp(state, b))[t]
            = [tabs[t] EXCEPT !.ops = Append(tabs[t].ops, BatchOp(state, b))]
      BY <1>3 DEF Told
    <2>. QED BY <1>2, <1>3, <2>1
  <1>4. CASE ~(t # from /\ Listens(t))
    <2>1. Told(tabs, from, BatchOp(state, b))[t] = tabs[t]
      BY <1>4 DEF Told
    <2>. QED BY <1>4, <2>1 DEF SameButPrimary
  <1>. QED BY <1>3, <1>4

-----------------------------------------------------------------------------
(* Type correctness.                                                       *)

LEMMA InitTyped == Init => TypeOK
  <1>. SUFFICES ASSUME Init PROVE TypeOK
    OBVIOUS
  <1>1. IsDatabase(db)
    BY DEF Init, IsDatabase
  <1>2. \A t \in Tabs : NewTab(t) \in TabStates
    BY DEF NewTab, TabStates
  <1>. QED BY <1>1, <1>2, BoundsAssumption DEF Init, TypeOK

LEMMA TypeStep == TypeOK /\ [Next]_vars => TypeOK'
  <1>. SUFFICES ASSUME TypeOK, [Next]_vars PROVE TypeOK'
    OBVIOUS
  <1>. USE DEF TypeOK
  <1>b. MaxEvents \in Nat /\ (Bounded => events' \in 0..MaxEvents)
    BY BoundsAssumption DEF Bounded
  <1>1. ASSUME NEW t \in Tabs, Open(t) PROVE TypeOK'
    <2>. DEFINE o == [tab[t] EXCEPT !.life = "open", !.visible = FALSE]
                r == RefreshLease(db, t, o)
                s == [r.tab EXCEPT !.ops = << >>, !.visible = tab[t].visible]
    <2>1. o \in TabStates
      BY DEF TabStates
    <2>2. IsDatabase(r.db) /\ r.tab \in TabStates
      BY <2>1, RefreshLeaseTyped
    <2>. HIDE DEF r
    <2>3. s \in TabStates /\ s.isPrimary \in BOOLEAN
      <3>1. << >> \in Seq(Ops) /\ tab[t].visible \in BOOLEAN
        BY DEF TabStates
      <3>. QED BY <2>2, <3>1 DEF TabStates
    <2>4. ApplyPrimaryState(r.db, s, s.isPrimary) \in TabStates
      BY <2>2, <2>3, ApplyPrimaryStateTyped
    <2>. QED BY <1>1, <2>2, <2>4 DEF Open, r
  <1>2. ASSUME NEW t \in Tabs, Refresh(t) PROVE TypeOK'
    <2>1. tab[t] \in TabStates
      OBVIOUS
    <2>2. /\ IsDatabase(RefreshLease(db, t, tab[t]).db)
          /\ RefreshLease(db, t, tab[t]).tab \in TabStates
      BY <2>1, RefreshLeaseTyped
    <2>. QED BY <1>2, <2>2 DEF Refresh
  <1>3. ASSUME NEW t \in Tabs, CollectClients(t) PROVE TypeOK'
    <2>1. ASSUME NEW gone, db' = Held([db EXCEPT !.meta = [u \in DOMAIN @ \ gone |-> @[u]]], t)
          PROVE  IsDatabase(db')
      <3>1. IsDatabase([db EXCEPT !.meta = [u \in DOMAIN @ \ gone |-> @[u]]])
        <4>1. [u \in DOMAIN db.meta \ gone |-> db.meta[u]] \in [DOMAIN db.meta \ gone -> Metadatas]
          BY DEF IsDatabase
        <4>. QED BY <4>1 DEF IsDatabase
      <3>. QED BY <2>1, <3>1, HeldTyped
    <2>2. LoseLease(tab[t]) \in TabStates
      BY SetPrimaryTyped DEF LoseLease
    <2>3. IsDatabase(db')
      BY <1>3, <2>1 DEF CollectClients
    <2>4. tab' \in [Tabs -> TabStates]
      BY <1>3, <2>2 DEF CollectClients
    <2>5. zombies' \subseteq Tabs
      BY <1>3 DEF CollectClients
    <2>. QED BY <1>3, <2>3, <2>4, <2>5 DEF CollectClients
  <1>4. ASSUME NEW t \in Tabs, RunOp(t) PROVE TypeOK'
    <2>. DEFINE op == Head(tab[t].ops)
                s  == [tab[t] EXCEPT !.ops = Tail(@)]
    <2>1. tab[t].ops \in Seq(Ops) /\ tab[t].ops # << >>
      BY <1>4 DEF RunOp, TabStates
    <2>2. op \in Ops /\ Tail(tab[t].ops) \in Seq(Ops)
      BY <2>1
    <2>3. s \in TabStates
      BY <2>2 DEF TabStates
    <2>4. CASE op.kind = "primary"
      <3>1. op.value \in BOOLEAN
        BY <2>2, <2>4 DEF Ops
      <3>2. ApplyPrimaryState(db, s, op.value) \in TabStates
        BY <2>3, <3>1, ApplyPrimaryStateTyped
      <3>. QED BY <1>4, <2>4, <3>2 DEF RunOp
    <2>5. CASE op.kind # "primary"
      <3>1. op.batch \in Nat
        BY <2>2, <2>5 DEF Ops
      <3>2. ApplyBatchState(db, s, op.kind, op.batch) \in TabStates
        BY <2>3, <3>1, ApplyBatchStateTyped
      <3>. QED BY <1>4, <2>3, <2>5, <3>2 DEF RunOp
    <2>. QED BY <2>4, <2>5
  <1>5. ASSUME NEW t \in Tabs, Write(t) PROVE TypeOK'
    <2>. DEFINE b == db.last + 1
                d == [db EXCEPT !.queue = @ \cup {b}, !.last = b]
                s == [tab[t] EXCEPT !.cached = @ \cup {b}, !.promises = @ \cup {b}]
    <2>1. b \in Nat /\ IsDatabase(d)
      <3>1. db.last \in Nat /\ db.queue \subseteq Nat
        BY DEF IsDatabase
      <3>2. b \in Nat /\ db.queue \cup {b} \subseteq Nat
        BY <3>1
      <3>. HIDE DEF b
      <3>. QED BY <3>2 DEF IsDatabase
    <2>2. s \in TabStates
      BY <2>1 DEF TabStates
    <2>3. [tab EXCEPT ![t] = Fill(d, s)] \in [Tabs -> TabStates]
      BY <2>1, <2>2, FillTyped
    <2>4. tab' \in [Tabs -> TabStates]
      BY <1>5, <2>1, <2>3, ToldTyped DEF Write
    <2>. QED BY <1>5, <2>1, <2>4 DEF Write
  <1>6. ASSUME NEW t \in Tabs, BackendCommits(t) PROVE TypeOK'
    <2>1. PICK b \in tab[t].pipeline :
            /\ committed' = committed \cup {b}
            /\ tab' = [tab EXCEPT ![t].answered = @ \cup {b}]
            /\ UNCHANGED <<db, zombies, events, untold>>
      BY <1>6 DEF BackendCommits
    <2>2. b \in Nat /\ [tab[t] EXCEPT !.answered = @ \cup {b}] \in TabStates
      BY DEF TabStates
    <2>. QED BY <2>1, <2>2
  <1>7. ASSUME NEW t \in Tabs, OnMutationResult(t) PROVE TypeOK'
    <2>1. PICK b \in tab[t].pipeline : OnResultOf(t, b)
      BY <1>7 DEF OnMutationResult
    <2>. DEFINE s == Popped(tab[t], b)
                d == Acknowledged(db, t, b)
                done == [s EXCEPT !.promises = @ \ {b}, !.cached = @ \ {b}]
    <2>2. b \in Nat /\ s \in TabStates /\ done \in TabStates
      BY DEF Popped, TabStates
    <2>3. IsDatabase(d)
      <3>1. IsDatabase([db EXCEPT !.queue = @ \ {b}])
        BY DEF IsDatabase
      <3>. QED BY <3>1, HeldTyped DEF Acknowledged
    <2>4. Fill(d, done) \in TabStates /\ Fill(db, LoseLease(s)) \in TabStates
      BY <2>2, <2>3, FillTyped, SetPrimaryTyped DEF LoseLease
    <2>5. /\ Told([tab EXCEPT ![t] = Fill(d, done)], t, BatchOp("acknowledged", b))
               \in [Tabs -> TabStates]
          /\ [tab EXCEPT ![t] = Fill(db, LoseLease(s))] \in [Tabs -> TabStates]
      BY <2>2, <2>4, ToldTyped
    <2>6. \A l \in LifeStates : [tab EXCEPT ![t].life = l] \in [Tabs -> TabStates]
      <3>1. \A l \in LifeStates : [tab[t] EXCEPT !.life = l] \in TabStates
        BY DEF TabStates, LifeStates
      <3>. QED BY <3>1
    <2>7. tab' \in [Tabs -> TabStates]
      BY <2>1, <2>5, <2>6 DEF OnResultOf, LifeStates
    <2>8. IsDatabase(db')
      BY <2>1, <2>3 DEF OnResultOf
    <2>9. untold' \subseteq Nat /\ events' \in 0..MaxEvents
      BY <1>b, <2>1, <2>2 DEF OnResultOf
    <2>. QED BY <2>1, <2>7, <2>8, <2>9 DEF OnResultOf
  <1>8. ASSUME NEW t \in Tabs, SwitchNetwork(t) PROVE TypeOK'
    <2>1. \A n \in BOOLEAN : [tab[t] EXCEPT !.network = n] \in TabStates
      BY DEF TabStates
    <2>2. /\ StreamClosed([tab[t] EXCEPT !.network = FALSE]) \in TabStates
          /\ Fill(db, [tab[t] EXCEPT !.network = TRUE]) \in TabStates
      BY <2>1, FillTyped, StreamClosedTyped
    <2>. QED BY <1>8, <1>b, <2>2 DEF SwitchNetwork
  <1>9. ASSUME NEW t \in Tabs, SwitchVisibility(t) PROVE TypeOK'
    <2>1. [tab[t] EXCEPT !.visible = ~@] \in TabStates
      BY DEF TabStates
    <2>2. /\ IsDatabase(RefreshLease(db, t, [tab[t] EXCEPT !.visible = ~@]).db)
          /\ RefreshLease(db, t, [tab[t] EXCEPT !.visible = ~@]).tab \in TabStates
      BY <2>1, RefreshLeaseTyped
    <2>. QED BY <1>9, <1>b, <2>2 DEF SwitchVisibility
  <1>10. ASSUME NEW t \in Tabs, StreamBreaks(t) PROVE TypeOK'
    <2>1. [tab[t] EXCEPT !.answered = {}] \in TabStates
      BY DEF TabStates
    <2>. QED BY <1>10, <1>b, <2>1 DEF StreamBreaks
  <1>11. ASSUME NEW t \in Tabs, Close(t) PROVE TypeOK'
    <2>1. [tab[t] EXCEPT !.life = "closing"] \in TabStates
      BY DEF TabStates
    <2>. QED BY <1>11, <1>b, <2>1 DEF Close
  <1>12. ASSUME NEW t \in Tabs, Shutdown(t) PROVE TypeOK'
    <2>1. [tab[t] EXCEPT !.life = "dead"] \in TabStates
      BY DEF TabStates
    <2>2. IsDatabase([Released(db, t) EXCEPT !.meta = [u \in DOMAIN @ \ {t} |-> @[u]]])
      <3>1. IsDatabase(Released(db, t))
        BY ReleasedTyped
      <3>. HIDE DEF IsDatabase
      <3>2. ASSUME NEW d, IsDatabase(d)
            PROVE  IsDatabase([d EXCEPT !.meta = [u \in DOMAIN @ \ {t} |-> @[u]]])
        <4>1. [u \in DOMAIN d.meta \ {t} |-> d.meta[u]] \in [DOMAIN d.meta \ {t} -> Metadatas]
          BY <3>2 DEF IsDatabase
        <4>. QED BY <3>2, <4>1 DEF IsDatabase
      <3>. QED BY <3>1, <3>2
    <2>. QED BY <1>12, <2>1, <2>2 DEF Shutdown
  <1>13. ASSUME NEW t \in Tabs, Die(t) PROVE TypeOK'
    <2>1. [tab[t] EXCEPT !.life = "dead"] \in TabStates
      BY DEF TabStates
    <2>. QED BY <1>13, <1>b, <2>1 DEF Die
  <1>14. CASE Tick
    <2>1. \A age \in Ages : Older(age) \in Ages
      BY DEF Older, Ages, MaxAge
    <2>. DEFINE lease == IF db.lease = NoLease THEN db.lease ELSE Aged(db.lease)
                meta  == [t \in DOMAIN db.meta |-> Aged(db.meta[t])]
    <2>2. lease \in Leases \cup {NoLease}
      BY <2>1 DEF IsDatabase, Leases, Aged
    <2>3. meta \in [DOMAIN db.meta -> Metadatas]
      <3>1. \A m \in Metadatas : Aged(m) \in Metadatas
        BY <2>1 DEF Metadatas, Aged
      <3>. QED BY <3>1 DEF IsDatabase
    <2>4. db' = [db EXCEPT !.lease = lease, !.meta = meta]
      BY <1>14 DEF Tick
    <2>. HIDE DEF lease, meta
    <2>5. IsDatabase(db')
      BY <2>2, <2>3, <2>4 DEF IsDatabase
    <2>. QED BY <1>14, <2>5 DEF Tick
  <1>15. CASE UNCHANGED vars
    BY <1>15 DEF vars
  <1>. QED
    BY <1>1, <1>2, <1>3, <1>4, <1>5, <1>6, <1>7, <1>8, <1>9, <1>10, <1>11, <1>12,
       <1>13, <1>14, <1>15 DEF Next, Task

(* The variables keep their types.                                         *)
THEOREM TabsTyped == Spec => []TypeOK
  BY InitTyped, TypeStep, PTL DEF Spec

-----------------------------------------------------------------------------
(* The lease.  A step leaves the lease with its owner, or gives a lease    *)
(* that is not valid to another tab, or is its owner's who gives it up.    *)
LEMMA LeaseKept == TypeOK /\ [Next]_vars /\ LeaseIsValid(db) =>
                     \/ db'.lease # NoLease /\ db'.lease.owner = db.lease.owner
                     \/ db'.lease = NoLease /\ tab'[db.lease.owner] # tab[db.lease.owner]
  <1>. SUFFICES ASSUME TypeOK, [Next]_vars, LeaseIsValid(db)
                PROVE  \/ db'.lease # NoLease /\ db'.lease.owner = db.lease.owner
                       \/ /\ db'.lease = NoLease
                          /\ tab'[db.lease.owner] # tab[db.lease.owner]
    OBVIOUS
  <1>. DEFINE Kept    == db'.lease # NoLease /\ db'.lease.owner = db.lease.owner
              GivenUp == db'.lease = NoLease /\ tab'[db.lease.owner] # tab[db.lease.owner]
  <1>a. /\ db.lease \in Leases /\ db.lease # NoLease /\ db.lease.owner \in Tabs
        /\ IsDatabase(db) /\ tab \in [Tabs -> TabStates]
    BY DEF LeaseIsValid, TypeOK, IsDatabase, Leases
  <1>b. db'.lease = db.lease => Kept
    BY <1>a
  <1>c. ASSUME NEW t \in Tabs, IsOwner(db, t), db'.lease = [owner |-> t, age |-> 0]
        PROVE  Kept
    <2>1. db'.lease \in Leases
      BY <1>c DEF Leases, Ages, MaxAge
    <2>. QED BY <1>c, <2>1, NoLeaseAssumption DEF IsOwner
  <1>d. ASSUME NEW t \in Tabs, NEW s \in TabStates, ~s.isPrimary, tab[t].isPrimary,
               tab' = [tab EXCEPT ![t] = s], IsOwner(db, t),
               db'.lease = NoLease
        PROVE  GivenUp
    <2>1. db.lease.owner = t /\ tab'[t] = s
      BY <1>a, <1>d DEF IsOwner
    <2>2. s # tab[t]
      BY <1>d
    <2>. QED BY <1>d, <2>1, <2>2
  <1>1. ASSUME NEW t \in Tabs, Open(t) PROVE Kept \/ GivenUp
    <2>. DEFINE o == [tab[t] EXCEPT !.life = "open", !.visible = FALSE]
                r == RefreshLease(db, t, o)
                s == [r.tab EXCEPT !.ops = << >>, !.visible = tab[t].visible]
                e == ApplyPrimaryState(r.db, s, s.isPrimary)
    <2>1. o \in TabStates /\ o.life = "open" /\ tab[t].life = "new"
      BY <1>a, <1>1 DEF TabStates, Open
    <2>a. tab' = [tab EXCEPT ![t] = e] /\ db' = r.db
      BY <1>1 DEF Open
    <2>. HIDE DEF o
    <2>2. /\ IsDatabase(r.db) /\ r.tab \in TabStates
          /\ r.tab.life = "open"
          /\ \/ r.db.lease = db.lease
             \/ /\ LeaseIsValid(db) => IsOwner(db, t)
                /\ r.db.lease = [owner |-> t, age |-> 0]
             \/ IsOwner(db, t) /\ r.db.lease = NoLease
      BY <1>a, <2>1, RefreshLeaseTyped DEF SameButPrimary
    <2>. HIDE DEF r
    <2>4. s \in TabStates /\ s.isPrimary \in BOOLEAN /\ s.life = "open"
      <3>1. << >> \in Seq(Ops) /\ tab[t].visible \in BOOLEAN
        BY <1>a DEF TabStates
      <3>. QED BY <2>2, <3>1 DEF TabStates
    <2>. HIDE DEF s
    <2>5. e.life = "open"
      <3>1. /\ [s EXCEPT !.engine = TRUE] \in TabStates
            /\ [s EXCEPT !.engine = FALSE] \in TabStates
            /\ [s EXCEPT !.engine = TRUE].life = "open"
            /\ [s EXCEPT !.engine = FALSE].life = "open"
        BY <2>4 DEF TabStates
      <3>2. /\ Fill(r.db, [s EXCEPT !.engine = TRUE]).life = "open"
            /\ StreamClosed([s EXCEPT !.engine = FALSE]).life = "open"
        BY <3>1, FillTyped DEF Fill, StreamClosed, TabStates
      <3>. QED BY <2>2, <2>4, <3>2, ApplyPrimaryStateTyped
    <2>6. tab'[t] # tab[t]
      BY <1>a, <2>1, <2>a, <2>5
    <2>. QED BY <1>a, <1>b, <1>c, <2>2, <2>a, <2>6 DEF IsOwner
  <1>2. ASSUME NEW t \in Tabs, NEW s \in TabStates, s.isPrimary = tab[t].isPrimary,
               db' = RefreshLease(db, t, s).db,
               tab' = [tab EXCEPT ![t] = RefreshLease(db, t, s).tab]
        PROVE  Kept \/ GivenUp
    <2>. DEFINE r == RefreshLease(db, t, s)
    <2>1. /\ r.tab \in TabStates
          /\ \/ r.db.lease = db.lease
             \/ /\ LeaseIsValid(db) => IsOwner(db, t)
                /\ r.db.lease = [owner |-> t, age |-> 0]
             \/ /\ IsOwner(db, t) /\ r.db.lease = NoLease
                /\ s.isPrimary /\ ~r.tab.isPrimary
      BY <1>a, RefreshLeaseTyped
    <2>. QED BY <1>b, <1>c, <1>d, <1>2, <2>1
  <1>3. ASSUME NEW t \in Tabs, Refresh(t) PROVE Kept \/ GivenUp
    <2>1. tab[t] \in TabStates
      BY <1>a
    <2>. QED BY <1>2, <1>3, <2>1 DEF Refresh
  <1>4. ASSUME NEW t \in Tabs, SwitchVisibility(t) PROVE Kept \/ GivenUp
    <2>1. /\ [tab[t] EXCEPT !.visible = ~@] \in TabStates
          /\ [tab[t] EXCEPT !.visible = ~@].isPrimary = tab[t].isPrimary
      BY <1>a DEF TabStates
    <2>. QED BY <1>2, <1>4, <2>1 DEF SwitchVisibility
  <1>5. ASSUME NEW t \in Tabs, CollectClients(t) PROVE Kept \/ GivenUp
    <2>1. CASE IsOwner(db, t) \/ CanActAsPrimary(db, t, tab[t])
      <3>1. IsOwner(db, t)
        BY <2>1 DEF CanActAsPrimary
      <3>2. PICK gone :
              db' = Held([db EXCEPT !.meta = [u \in DOMAIN @ \ gone |-> @[u]]], t)
        BY <1>5, <2>1 DEF CollectClients
      <3>3. db'.lease = [owner |-> t, age |-> 0]
        BY <1>a, <3>2 DEF Held, IsDatabase
      <3>. QED BY <1>c, <3>1, <3>3
    <2>2. CASE ~(IsOwner(db, t) \/ CanActAsPrimary(db, t, tab[t]))
      BY <1>b, <1>5, <2>2 DEF CollectClients
    <2>. QED BY <2>1, <2>2
  <1>6. ASSUME NEW t \in Tabs, OnMutationResult(t) PROVE Kept \/ GivenUp
    <2>1. PICK b \in tab[t].pipeline : OnResultOf(t, b)
      BY <1>6 DEF OnMutationResult
    <2>2. CASE db' = Acknowledged(db, t, b)
      <3>1. IsOwner(db, t) \/ CanActAsPrimary(db, t, Popped(tab[t], b)) \/ db' = db
        BY <2>1 DEF OnResultOf
      <3>2. IsOwner(db, t) \/ db' = db
        BY <3>1 DEF CanActAsPrimary
      <3>3. db'.lease = [owner |-> t, age |-> 0]
        BY <1>a, <2>2 DEF Acknowledged, Held, IsDatabase
      <3>. QED BY <1>b, <1>c, <3>2, <3>3
    <2>3. CASE db' = db
      BY <1>b, <2>3
    <2>. QED BY <2>1, <2>2, <2>3 DEF OnResultOf
  <1>7. ASSUME NEW t \in Tabs, Shutdown(t) PROVE Kept \/ GivenUp
    <2>1. tab[t].life = "closing" /\ tab'[t].life = "dead"
      BY <1>a, <1>7 DEF Shutdown, TabStates
    <2>2. db'.lease = IF IsOwner(db, t) THEN NoLease ELSE db.lease
      <3>1. IsDatabase(Released(db, t))
        BY <1>a, ReleasedTyped
      <3>2. db'.lease = Released(db, t).lease
        BY <1>7, <3>1 DEF Shutdown, IsDatabase
      <3>. QED BY <1>a, <3>2, ReleasedTyped
    <2>. QED BY <1>a, <1>b, <2>1, <2>2 DEF IsOwner
  <1>8. CASE Tick
    <2>1. db'.lease = Aged(db.lease)
      BY <1>a, <1>8 DEF Tick, IsDatabase
    <2>2. Aged(db.lease) \in Leases /\ Aged(db.lease).owner = db.lease.owner
      BY <1>a DEF Aged, Older, Leases, Ages, MaxAge
    <2>. QED BY <1>a, <2>1, <2>2, NoLeaseAssumption
  <1>9. ASSUME NEW t \in Tabs, Write(t) PROVE Kept
    <2>1. db'.lease = db.lease
      BY <1>a, <1>9 DEF Write, IsDatabase
    <2>. QED BY <1>b, <2>1
  <1>10. ASSUME NEW t \in Tabs, RunOp(t) \/ SwitchNetwork(t) \/ BackendCommits(t)
                  \/ StreamBreaks(t) \/ Close(t) \/ Die(t)
         PROVE  Kept
    BY <1>b, <1>10 DEF RunOp, SwitchNetwork, BackendCommits, StreamBreaks, Close, Die
  <1>11. CASE UNCHANGED vars
    BY <1>b, <1>11 DEF vars
  <1>. QED
    BY <1>1, <1>3, <1>4, <1>5, <1>6, <1>7, <1>8, <1>9, <1>10, <1>11 DEF Next, Task

(* A valid lease stays with its owner until he gives it up.                *)
THEOREM LeaseNeverStolen == Spec => LeaseNotStolen
  <1>1. TypeOK /\ [Next]_vars =>
          [LeaseIsValid(db) =>
             \/ db'.lease # NoLease /\ db'.lease.owner = db.lease.owner
             \/ db'.lease = NoLease /\ tab'[db.lease.owner] # tab[db.lease.owner]]_vars
    BY LeaseKept
  <1>. QED BY <1>1, TabsTyped, PTL DEF Spec, LeaseNotStolen

-----------------------------------------------------------------------------
(* The way of the writes.  A tab's pipeline leaves out no batch below its  *)
(* last one that is not committed, and it is answered from its front, so   *)
(* what the backend commits next follows what it has committed.            *)
InOrder(s, last, done) ==
  /\ s.answered \subseteq s.pipeline /\ s.answered \subseteq done
  /\ s.pipeline \subseteq 1..last
  /\ \A a \in s.answered, b \in s.pipeline : b < a => b \in s.answered
  /\ \A b \in s.pipeline : \A c \in 1..last : c < b => c \in s.pipeline \cup done

Delivered ==
  /\ NoWriteLost
  /\ db.queue \subseteq 1..db.last /\ committed \subseteq 1..db.last
  /\ \A t \in Tabs : InOrder(tab[t], db.last, committed)

(* What a tab that is not touched has in its pipeline stays in order when  *)
(* batches are written and committed.                                      *)
LEMMA InOrderGrows ==
  ASSUME NEW s, NEW last \in Nat, NEW more \in Nat, last <= more,
         NEW done, NEW all, done \subseteq all, InOrder(s, last, done)
  PROVE  InOrder(s, more, all)
  BY DEF InOrder

(* A tab stays in order unless its pipeline changes.                       *)
LEMMA InOrderSame ==
  ASSUME NEW s, NEW r, r.pipeline = s.pipeline, r.answered = s.answered,
         NEW last, NEW done, InOrder(s, last, done)
  PROVE  InOrder(r, last, done)
  BY DEF InOrder

LEMMA FillInOrder ==
  ASSUME NEW d, IsDatabase(d), NEW s \in TabStates, NEW done,
         d.queue \subseteq 1..d.last, 1..d.last \ d.queue \subseteq done,
         InOrder(s, d.last, done)
  PROVE  InOrder(Fill(d, s), d.last, done)
  <1>1. CASE Fill(d, s) = s
    BY <1>1
  <1>2. CASE Fill(d, s) = [s EXCEPT !.pipeline = @ \cup After(d.queue, @)]
    <2>. DEFINE p == s.pipeline
                q == s.pipeline \cup After(d.queue, s.pipeline)
    <2>1. d.last \in Nat /\ p \subseteq Nat
      BY DEF IsDatabase, TabStates
    <2>2. Fill(d, s).pipeline = q /\ Fill(d, s).answered = s.answered
      BY <1>2 DEF TabStates
    <2>3. \A b \in q : b \in p \/ (b \in d.queue /\ \A other \in p : b > other)
      BY DEF After
    <2>4. q \subseteq 1..d.last /\ s.answered \subseteq q /\ s.answered \subseteq done
      BY <2>3 DEF InOrder
    <2>5. \A a \in s.answered, b \in q : b < a => b \in s.answered
      BY <2>1, <2>3, <2>4 DEF InOrder
    <2>6. ASSUME NEW b \in q, NEW c \in 1..d.last, c < b
          PROVE  c \in q \cup done
      <3>1. CASE b \in p
        BY <2>6, <3>1 DEF InOrder
      <3>2. CASE b \notin p
        <4>1. c \in d.queue \/ c \in done
          OBVIOUS
        <4>2. CASE \A other \in p : c > other
          BY <4>1, <4>2 DEF After
        <4>3. CASE \E other \in p : ~(c > other)
          <5>1. PICK other \in p : c <= other
            BY <2>1, <4>3
          <5>2. CASE c = other
            BY <5>2
          <5>3. CASE c < other
            BY <5>3 DEF InOrder
          <5>. QED BY <2>1, <5>1, <5>2, <5>3
        <4>. QED BY <4>2, <4>3
      <3>. QED BY <3>1, <3>2
    <2>. QED BY <2>2, <2>4, <2>5, <2>6 DEF InOrder
  <1>. QED BY <1>1, <1>2, FillTyped

(* An empty pipeline is in order.                                          *)
LEMMA StreamClosedInOrder ==
  ASSUME NEW s \in TabStates, NEW last, NEW done
  PROVE  InOrder(StreamClosed(s), last, done)
  BY DEF StreamClosed, InOrder, TabStates

LEMMA ApplyPrimaryStateInOrder ==
  ASSUME NEW d, IsDatabase(d), NEW s \in TabStates, NEW value \in BOOLEAN, NEW done,
         d.queue \subseteq 1..d.last, 1..d.last \ d.queue \subseteq done,
         InOrder(s, d.last, done)
  PROVE  InOrder(ApplyPrimaryState(d, s, value), d.last, done)
  <1>1. /\ [s EXCEPT !.engine = TRUE] \in TabStates
        /\ [s EXCEPT !.engine = FALSE] \in TabStates
    BY DEF TabStates
  <1>2. InOrder([s EXCEPT !.engine = TRUE], d.last, done)
    BY InOrderSame DEF TabStates
  <1>3. /\ InOrder(Fill(d, [s EXCEPT !.engine = TRUE]), d.last, done)
        /\ InOrder(StreamClosed([s EXCEPT !.engine = FALSE]), d.last, done)
    BY <1>1, <1>2, FillInOrder, StreamClosedInOrder
  <1>. QED BY <1>3, ApplyPrimaryStateTyped

LEMMA ApplyBatchStateInOrder ==
  ASSUME NEW d, IsDatabase(d), NEW s \in TabStates, NEW state, NEW b \in Nat, NEW done,
         d.queue \subseteq 1..d.last, 1..d.last \ d.queue \subseteq done,
         InOrder(s, d.last, done)
  PROVE  InOrder(ApplyBatchState(d, s, state, b), d.last, done)
  <1>. DEFINE seen == [s EXCEPT !.cached = @ \cup {b}]
              told == [s EXCEPT !.promises = @ \ {b}, !.cached = @ \ {b}]
  <1>1. /\ seen \in TabStates
        /\ seen.pipeline = s.pipeline /\ seen.answered = s.answered
        /\ told.pipeline = s.pipeline /\ told.answered = s.answered
    BY DEF TabStates
  <1>2. ApplyBatchState(d, s, state, b) \in {s, Fill(d, seen), told}
    BY DEF ApplyBatchState
  <1>. HIDE DEF seen, told
  <1>3. /\ InOrder(seen, d.last, done) /\ InOrder(told, d.last, done)
        /\ InOrder(Fill(d, seen), d.last, done)
    BY <1>1, InOrderSame, FillInOrder
  <1>. QED BY <1>2, <1>3

(* The invariant holds after a step that changes one tab, which stays in   *)
(* order, and neither the queue nor what is committed.                     *)
LEMMA DeliveredKept ==
  ASSUME TypeOK, Delivered, NEW t \in Tabs, NEW s,
         tab' = [tab EXCEPT ![t] = s], InOrder(s, db.last, committed),
         db'.queue = db.queue, db'.last = db.last, committed' = committed
  PROVE  Delivered'
  BY DEF TypeOK, Delivered, NoWriteLost

LEMMA DeliveredStep == TypeOK /\ TypeOK' /\ Delivered /\ [Next]_vars => Delivered'
  <1>. SUFFICES ASSUME TypeOK, TypeOK', Delivered, [Next]_vars PROVE Delivered'
    OBVIOUS
  <1>a. /\ IsDatabase(db) /\ tab \in [Tabs -> TabStates]
        /\ db.last \in Nat /\ db.queue \subseteq Nat
    BY DEF TypeOK, IsDatabase
  <1>b. /\ db.queue \subseteq 1..db.last /\ 1..db.last \ db.queue \subseteq committed
        /\ committed \subseteq 1..db.last
        /\ \A t \in Tabs : InOrder(tab[t], db.last, committed)
    BY DEF Delivered, NoWriteLost
  <1>1. ASSUME NEW t \in Tabs, Open(t) PROVE Delivered'
    <2>. DEFINE o == [tab[t] EXCEPT !.life = "open", !.visible = FALSE]
                r == RefreshLease(db, t, o)
                s == [r.tab EXCEPT !.ops = << >>, !.visible = tab[t].visible]
                e == ApplyPrimaryState(r.db, s, s.isPrimary)
    <2>1. db' = r.db /\ tab' = [tab EXCEPT ![t] = e] /\ committed' = committed
      BY <1>1 DEF Open
    <2>2. o \in TabStates /\ InOrder(o, db.last, committed)
      BY <1>a, <1>b, InOrderSame DEF TabStates
    <2>. HIDE DEF o
    <2>3. /\ IsDatabase(r.db) /\ r.tab \in TabStates /\ SameButPrimary(o, r.tab)
          /\ r.db.queue = db.queue /\ r.db.last = db.last
      BY <1>a, <2>2, RefreshLeaseTyped
    <2>. HIDE DEF r
    <2>4. /\ s \in TabStates /\ s.isPrimary \in BOOLEAN
          /\ s.pipeline = o.pipeline /\ s.answered = o.answered
      <3>1. << >> \in Seq(Ops) /\ tab[t].visible \in BOOLEAN
        BY <1>a DEF TabStates
      <3>. QED BY <2>3, <3>1 DEF TabStates, SameButPrimary
    <2>. HIDE DEF s
    <2>5. InOrder(s, db.last, committed)
      BY <2>2, <2>4, InOrderSame
    <2>6. InOrder(e, db.last, committed)
      BY <1>b, <2>3, <2>4, <2>5, ApplyPrimaryStateInOrder
    <2>. HIDE DEF e
    <2>. QED BY <2>1, <2>3, <2>6, DeliveredKept
  <1>2. ASSUME NEW t \in Tabs, Refresh(t) PROVE Delivered'
    <2>. DEFINE r == RefreshLease(db, t, tab[t])
    <2>1. db' = r.db /\ tab' = [tab EXCEPT ![t] = r.tab] /\ committed' = committed
      BY <1>2 DEF Refresh
    <2>2. /\ SameButPrimary(tab[t], r.tab)
          /\ r.db.queue = db.queue /\ r.db.last = db.last
      <3>1. tab[t] \in TabStates
        BY <1>a
      <3>. QED BY <1>a, <3>1, RefreshLeaseTyped
    <2>. HIDE DEF r
    <2>3. InOrder(r.tab, db.last, committed)
      BY <1>b, <2>2, InOrderSame DEF SameButPrimary
    <2>. QED BY <2>1, <2>2, <2>3, DeliveredKept
  <1>3. ASSUME NEW t \in Tabs, CollectClients(t) PROVE Delivered'
    <2>1. db'.queue = db.queue /\ db'.last = db.last /\ committed' = committed
      BY <1>a, <1>3 DEF CollectClients, Held, IsDatabase
    <2>2. PICK s \in {tab[t], LoseLease(tab[t])} : tab' = [tab EXCEPT ![t] = s]
      BY <1>a, <1>3 DEF CollectClients
    <2>3. InOrder(s, db.last, committed)
      BY <1>a, <1>b, <2>2, SetPrimarySame, InOrderSame DEF LoseLease, SameButPrimary
    <2>. QED BY <2>1, <2>2, <2>3, DeliveredKept
  <1>4. ASSUME NEW t \in Tabs, RunOp(t) PROVE Delivered'
    <2>. DEFINE op == Head(tab[t].ops)
                s  == [tab[t] EXCEPT !.ops = Tail(@)]
    <2>1. tab[t].ops \in Seq(Ops) /\ tab[t].ops # << >>
      BY <1>a, <1>4 DEF RunOp, TabStates
    <2>2. op \in Ops /\ Tail(tab[t].ops) \in Seq(Ops)
      BY <2>1
    <2>3. s \in TabStates /\ InOrder(s, db.last, committed)
      BY <1>a, <1>b, <2>2, InOrderSame DEF TabStates
    <2>4. CASE op.kind = "primary"
      <3>1. op.value \in BOOLEAN
        BY <2>2, <2>4 DEF Ops
      <3>2. InOrder(ApplyPrimaryState(db, s, op.value), db.last, committed)
        BY <1>a, <1>b, <2>3, <3>1, ApplyPrimaryStateInOrder
      <3>3. /\ tab' = [tab EXCEPT ![t] = ApplyPrimaryState(db, s, op.value)]
            /\ db' = db /\ committed' = committed
        BY <1>4, <2>4 DEF RunOp
      <3>. QED BY <3>2, <3>3, DeliveredKept
    <2>5. CASE op.kind # "primary"
      <3>1. op.batch \in Nat
        BY <2>2, <2>5 DEF Ops
      <3>2. InOrder(ApplyBatchState(db, s, op.kind, op.batch), db.last, committed)
        BY <1>a, <1>b, <2>3, <3>1, ApplyBatchStateInOrder
      <3>3. /\ \/ tab' = [tab EXCEPT ![t] = ApplyBatchState(db, s, op.kind, op.batch)]
               \/ tab' = [tab EXCEPT ![t] = s]
            /\ db' = db /\ committed' = committed
        BY <1>4, <2>5 DEF RunOp
      <3>. QED BY <2>3, <3>2, <3>3, DeliveredKept
    <2>. QED BY <2>4, <2>5
  <1>5. ASSUME NEW t \in Tabs, Write(t) PROVE Delivered'
    <2>. DEFINE b == db.last + 1
                d == [db EXCEPT !.queue = @ \cup {b}, !.last = b]
                s == [tab[t] EXCEPT !.cached = @ \cup {b}, !.promises = @ \cup {b}]
                f == [tab EXCEPT ![t] = Fill(d, s)]
    <2>1. b \in Nat /\ db' = d /\ committed' = committed
      BY <1>a, <1>5 DEF Write
    <2>2. IsDatabase(d)
      BY <2>1 DEF TypeOK
    <2>3. d.queue = db.queue \cup {b} /\ d.last = b
      BY <1>a DEF IsDatabase
    <2>4. d.queue \subseteq 1..d.last /\ 1..d.last \ d.queue \subseteq committed
      BY <1>a, <1>b, <2>3
    <2>5. s \in TabStates /\ InOrder(s, db.last, committed)
      BY <1>a, <1>b, <2>1, InOrderSame DEF TabStates
    <2>6. InOrder(s, d.last, committed) /\ \A u \in Tabs : InOrder(tab[u], d.last, committed)
      BY <1>a, <1>b, <2>1, <2>3, <2>5, InOrderGrows
    <2>7. InOrder(Fill(d, s), d.last, committed) /\ f \in [Tabs -> TabStates]
      BY <1>a, <2>2, <2>4, <2>5, <2>6, FillInOrder, FillTyped
    <2>8. tab' = Told(f, t, BatchOp("pending", b))
      BY <1>5 DEF Write
    <2>9. \A u \in Tabs : InOrder(f[u], d.last, committed)
      BY <1>a, <2>6, <2>7
    <2>. HIDE DEF f, d, s, b
    <2>10. ASSUME NEW u \in Tabs PROVE InOrder(tab'[u], d.last, committed)
      <3>1. tab'[u].pipeline = f[u].pipeline /\ tab'[u].answered = f[u].answered
        BY <2>1, <2>7, <2>8, ToldSame DEF SameButPrimary
      <3>. QED BY <2>9, <3>1, InOrderSame
    <2>11. NoWriteLost'
      BY <2>1, <2>4 DEF Delivered, NoWriteLost
    <2>12. committed \subseteq 1..d.last
      BY <1>a, <1>b, <2>1, <2>3 DEF b
    <2>. QED BY <2>1, <2>4, <2>10, <2>11, <2>12 DEF Delivered
  <1>6. ASSUME NEW t \in Tabs, BackendCommits(t) PROVE Delivered'
    <2>1. PICK b \in tab[t].pipeline :
            /\ IsOldest(b, tab[t].pipeline \ tab[t].answered)
            /\ committed' = committed \cup {b}
            /\ tab' = [tab EXCEPT ![t].answered = @ \cup {b}]
            /\ db' = db
      BY <1>6 DEF BackendCommits
    <2>2. InOrder(tab[t], db.last, committed) /\ b \in 1..db.last
      BY <1>b DEF InOrder
    <2>3. \A c \in 1..db.last : c < b => c \in committed
      BY <1>a, <2>1, <2>2 DEF InOrder, IsOldest
    <2>4. NoWriteLost'
      BY <1>a, <1>b, <2>1, <2>2, <2>3 DEF Delivered, NoWriteLost
    <2>5. \A u \in Tabs : InOrder(tab[u], db.last, committed')
      BY <1>a, <1>b, <2>1, InOrderGrows
    <2>6. /\ tab'[t].pipeline = tab[t].pipeline
          /\ tab'[t].answered = tab[t].answered \cup {b}
          /\ \A u \in Tabs \ {t} : tab'[u] = tab[u]
      BY <1>a, <2>1 DEF TabStates
    <2>7. InOrder(tab'[t], db.last, committed')
      <3>1. \A c \in tab[t].pipeline : c < b => c \in tab[t].answered
        BY <1>a, <1>b, <2>1, <2>2 DEF IsOldest, InOrder
      <3>. QED BY <1>a, <2>1, <2>2, <2>5, <2>6, <3>1 DEF InOrder
    <2>8. committed' \subseteq 1..db.last
      BY <1>b, <2>1, <2>2
    <2>. QED BY <1>b, <2>1, <2>4, <2>5, <2>6, <2>7, <2>8 DEF Delivered
  <1>7. ASSUME NEW t \in Tabs, OnMutationResult(t) PROVE Delivered'
    <2>1. PICK b \in tab[t].pipeline : OnResultOf(t, b)
      BY <1>7 DEF OnMutationResult
    <2>. DEFINE s == Popped(tab[t], b)
                d == Acknowledged(db, t, b)
                done == [s EXCEPT !.promises = @ \ {b}, !.cached = @ \ {b}]
    <2>2. InOrder(tab[t], db.last, committed)
      BY <1>b
    <2>3. b \in committed /\ b \in Nat
      <3>1. PICK a \in tab[t].answered : TRUE
        BY <2>1 DEF OnResultOf, IsAnswered
      <3>2. a \in Nat /\ a \in tab[t].pipeline /\ b <= a /\ b \in Nat
        BY <1>a, <2>1, <2>2, <3>1 DEF OnResultOf, IsOldest, InOrder, TabStates
      <3>. QED BY <2>2, <3>1, <3>2 DEF InOrder
    <2>4. /\ s \in TabStates /\ done \in TabStates
          /\ s.pipeline = tab[t].pipeline \ {b} /\ s.answered = tab[t].answered \ {b}
          /\ done.pipeline = s.pipeline /\ done.answered = s.answered
      BY <1>a DEF Popped, TabStates
    <2>. HIDE DEF s, done
    <2>5. InOrder(s, db.last, committed) /\ InOrder(done, db.last, committed)
      <3>1. InOrder(s, db.last, committed)
        BY <2>2, <2>3, <2>4 DEF InOrder
      <3>. QED BY <2>4, <3>1, InOrderSame
    <2>6. IsDatabase(d) /\ d.queue = db.queue \ {b} /\ d.last = db.last
      <3>1. /\ IsDatabase([db EXCEPT !.queue = @ \ {b}])
            /\ [db EXCEPT !.queue = @ \ {b}].queue = db.queue \ {b}
            /\ [db EXCEPT !.queue = @ \ {b}].last = db.last
        BY <1>a DEF IsDatabase
      <3>. QED BY <3>1, HeldTyped DEF Acknowledged
    <2>7. d.queue \subseteq 1..d.last /\ 1..d.last \ d.queue \subseteq committed
      BY <1>b, <2>3, <2>6
    <2>. HIDE DEF d
    <2>8. CASE db' = db /\ tab' = [tab EXCEPT ![t] = Fill(db, LoseLease(s))]
      <3>1. LoseLease(s) \in TabStates /\ InOrder(LoseLease(s), db.last, committed)
        BY <2>4, <2>5, SetPrimaryTyped, SetPrimarySame, InOrderSame
           DEF LoseLease, SameButPrimary
      <3>2. InOrder(Fill(db, LoseLease(s)), db.last, committed)
        BY <1>a, <1>b, <3>1, FillInOrder
      <3>. QED BY <2>1, <2>8, <3>2, DeliveredKept DEF OnResultOf
    <2>9. CASE db' = d /\ tab' = Told([tab EXCEPT ![t] = Fill(d, done)], t,
                                     BatchOp("acknowledged", b))
      <3>. DEFINE f == [tab EXCEPT ![t] = Fill(d, done)]
      <3>1. InOrder(Fill(d, done), d.last, committed) /\ f \in [Tabs -> TabStates]
        BY <1>a, <2>4, <2>5, <2>6, <2>7, FillInOrder, FillTyped
      <3>2. \A u \in Tabs : InOrder(f[u], db.last, committed)
        BY <1>a, <1>b, <2>6, <3>1
      <3>. HIDE DEF f
      <3>3. ASSUME NEW u \in Tabs PROVE InOrder(tab'[u], db.last, committed)
        <4>1. tab' = Told(f, t, BatchOp("acknowledged", b))
          BY <2>9 DEF f
        <4>2. tab'[u].pipeline = f[u].pipeline /\ tab'[u].answered = f[u].answered
          BY <2>3, <3>1, <4>1, ToldSame DEF SameButPrimary
        <4>. QED BY <3>2, <4>2, InOrderSame
      <3>4. committed' = committed
        BY <2>1 DEF OnResultOf
      <3>5. NoWriteLost'
        BY <2>6, <2>7, <2>9, <3>4 DEF Delivered, NoWriteLost
      <3>. QED BY <1>b, <2>6, <2>7, <2>9, <3>3, <3>4, <3>5 DEF Delivered
    <2>10. ASSUME NEW l \in LifeStates, tab' = [tab EXCEPT ![t].life = l],
                  db' = d \/ db' = db
           PROVE  Delivered'
      <3>1. \A u \in Tabs : tab'[u].pipeline = tab[u].pipeline /\ tab'[u].answered = tab[u].answered
        BY <1>a, <2>10 DEF TabStates
      <3>2. \A u \in Tabs : InOrder(tab'[u], db.last, committed)
        BY <1>b, <3>1, InOrderSame
      <3>3. committed' = committed
        BY <2>1 DEF OnResultOf
      <3>4. db'.last = db.last /\ db'.queue \subseteq 1..db.last
            /\ 1..db.last \ db'.queue \subseteq committed
        BY <1>b, <2>6, <2>7, <2>10
      <3>5. NoWriteLost'
        BY <3>3, <3>4 DEF Delivered, NoWriteLost
      <3>. QED BY <1>b, <3>2, <3>3, <3>4, <3>5 DEF Delivered
    <2>. QED BY <2>1, <2>8, <2>9, <2>10 DEF OnResultOf, LifeStates, d, s, done
  <1>8. ASSUME NEW t \in Tabs, SwitchNetwork(t) PROVE Delivered'
    <2>. DEFINE off == [tab[t] EXCEPT !.network = FALSE]
                on  == [tab[t] EXCEPT !.network = TRUE]
    <2>1. /\ off \in TabStates /\ on \in TabStates
          /\ on.pipeline = tab[t].pipeline /\ on.answered = tab[t].answered
      BY <1>a DEF TabStates
    <2>2. InOrder(on, db.last, committed)
      BY <1>b, <2>1, InOrderSame
    <2>3. PICK s \in {StreamClosed(off), Fill(db, on)} : tab' = [tab EXCEPT ![t] = s]
      BY <1>8 DEF SwitchNetwork
    <2>. HIDE DEF on, off
    <2>4. InOrder(s, db.last, committed)
      BY <1>a, <1>b, <2>1, <2>2, <2>3, FillInOrder, StreamClosedInOrder
    <2>. QED BY <1>8, <2>3, <2>4, DeliveredKept DEF SwitchNetwork
  <1>9. ASSUME NEW t \in Tabs, SwitchVisibility(t) PROVE Delivered'
    <2>. DEFINE s == [tab[t] EXCEPT !.visible = ~@]
                r == RefreshLease(db, t, s)
    <2>1. db' = r.db /\ tab' = [tab EXCEPT ![t] = r.tab] /\ committed' = committed
      BY <1>9 DEF SwitchVisibility
    <2>2. s \in TabStates /\ InOrder(s, db.last, committed)
      BY <1>a, <1>b, InOrderSame DEF TabStates
    <2>. HIDE DEF s
    <2>3. SameButPrimary(s, r.tab) /\ r.db.queue = db.queue /\ r.db.last = db.last
      BY <1>a, <2>2, RefreshLeaseTyped
    <2>. HIDE DEF r
    <2>4. InOrder(r.tab, db.last, committed)
      BY <2>2, <2>3, InOrderSame DEF SameButPrimary
    <2>. QED BY <2>1, <2>3, <2>4, DeliveredKept
  <1>10. ASSUME NEW t \in Tabs, StreamBreaks(t) PROVE Delivered'
    <2>1. InOrder([tab[t] EXCEPT !.answered = {}], db.last, committed)
      BY <1>a, <1>b DEF InOrder, TabStates
    <2>. QED BY <1>10, <2>1, DeliveredKept DEF StreamBreaks
  <1>11. ASSUME NEW t \in Tabs, Close(t) \/ Die(t) PROVE Delivered'
    <2>1. PICK l \in LifeStates : tab' = [tab EXCEPT ![t].life = l]
      BY <1>11 DEF Close, Die, LifeStates
    <2>2. InOrder([tab[t] EXCEPT !.life = l], db.last, committed)
      BY <1>a, <1>b, InOrderSame DEF TabStates
    <2>. QED BY <1>11, <2>1, <2>2, DeliveredKept DEF Close, Die
  <1>12. ASSUME NEW t \in Tabs, Shutdown(t) PROVE Delivered'
    <2>1. db'.queue = db.queue /\ db'.last = db.last
      <3>1. IsDatabase(Released(db, t)) /\ Released(db, t).queue = db.queue
            /\ Released(db, t).last = db.last
        BY <1>a, ReleasedTyped
      <3>. QED BY <1>12, <3>1 DEF Shutdown, IsDatabase
    <2>2. InOrder([tab[t] EXCEPT !.life = "dead"], db.last, committed)
      BY <1>a, <1>b, InOrderSame DEF TabStates
    <2>. QED BY <1>12, <2>1, <2>2, DeliveredKept DEF Shutdown
  <1>13. CASE Tick
    <2>1. /\ db'.queue = db.queue /\ db'.last = db.last
          /\ tab' = tab /\ committed' = committed
      BY <1>a, <1>13 DEF Tick, IsDatabase
    <2>. QED BY <2>1 DEF Delivered, NoWriteLost
  <1>14. CASE UNCHANGED vars
    BY <1>14 DEF vars, Delivered, NoWriteLost
  <1>. QED
    BY <1>1, <1>2, <1>3, <1>4, <1>5, <1>6, <1>7, <1>8, <1>9, <1>10, <1>11, <1>12,
       <1>13, <1>14 DEF Next, Task

(* Takeovers, crashes and broken streams lose and reorder no write.        *)
THEOREM NoWriteEverLost == Spec => []NoWriteLost
  <1>1. Init => Delivered
    BY DEF Init, Delivered, NoWriteLost, InOrder, NewTab
  <1>2. Delivered => NoWriteLost
    BY DEF Delivered
  <1>. QED BY <1>1, <1>2, DeliveredStep, TabsTyped, PTL DEF Spec

-----------------------------------------------------------------------------
(* What filling, closing and a change of the primary state leave alone.    *)
SameTasks(s, r) ==
  /\ r.life = s.life /\ r.isPrimary = s.isPrimary /\ r.ops = s.ops
  /\ r.promises = s.promises /\ r.cached = s.cached

LEMMA FillSame ==
  ASSUME NEW d, NEW s \in TabStates
  PROVE  SameTasks(s, Fill(d, s)) /\ Fill(d, s).engine = s.engine
  BY DEF Fill, SameTasks, TabStates

LEMMA StreamClosedSame ==
  ASSUME NEW s \in TabStates
  PROVE  SameTasks(s, StreamClosed(s)) /\ StreamClosed(s).engine = s.engine
  BY DEF StreamClosed, SameTasks, TabStates

LEMMA ApplyPrimaryStateSame ==
  ASSUME NEW d, IsDatabase(d), NEW s \in TabStates, NEW value \in BOOLEAN
  PROVE  SameTasks(s, ApplyPrimaryState(d, s, value))
  <1>. DEFINE on  == [s EXCEPT !.engine = TRUE]
              off == [s EXCEPT !.engine = FALSE]
              r   == ApplyPrimaryState(d, s, value)
  <1>1. on \in TabStates /\ SameTasks(s, on) /\ off \in TabStates /\ SameTasks(s, off)
    BY DEF TabStates, SameTasks
  <1>2. r \in {s, Fill(d, on), StreamClosed(off)}
    BY ApplyPrimaryStateTyped
  <1>. HIDE DEF on, off, r
  <1>3. SameTasks(s, Fill(d, on)) /\ SameTasks(s, StreamClosed(off)) /\ SameTasks(s, s)
    BY <1>1, FillSame, StreamClosedSame DEF SameTasks
  <1>4. SameTasks(s, r)
    BY <1>2, <1>3
  <1>. QED BY <1>4 DEF r

(* News of a batch settle its promise, or leave everything but the cache.  *)
LEMMA ApplyBatchStateSame ==
  ASSUME NEW d, IsDatabase(d), NEW s \in TabStates, NEW state, NEW b \in Nat
  PROVE  LET r == ApplyBatchState(d, s, state, b)
         IN  /\ r.life = s.life /\ r.isPrimary = s.isPrimary /\ r.ops = s.ops
             /\ r.engine = s.engine
             /\ \/ r.promises = s.promises /\ r.cached = s.cached /\ b \notin s.cached
                \/ /\ r.promises = s.promises /\ r.cached = s.cached \cup {b}
                   /\ state = "pending"
                \/ r.promises = s.promises \ {b} /\ r.cached = s.cached \ {b}
  <1>. DEFINE seen == [s EXCEPT !.cached = @ \cup {b}]
              told == [s EXCEPT !.promises = @ \ {b}, !.cached = @ \ {b}]
              r    == ApplyBatchState(d, s, state, b)
  <1>1. /\ \/ r = s /\ b \notin s.cached
           \/ r = Fill(d, seen) /\ state = "pending"
           \/ r = told
    BY DEF ApplyBatchState
  <1>2. /\ seen \in TabStates
        /\ seen.life = s.life /\ seen.isPrimary = s.isPrimary /\ seen.ops = s.ops
        /\ seen.engine = s.engine /\ seen.promises = s.promises
        /\ seen.cached = s.cached \cup {b}
    BY DEF TabStates
  <1>3. /\ told.life = s.life /\ told.isPrimary = s.isPrimary /\ told.ops = s.ops
        /\ told.engine = s.engine /\ told.promises = s.promises \ {b}
        /\ told.cached = s.cached \ {b}
    BY DEF TabStates
  <1>. HIDE DEF seen, told, r
  <1>4. SameTasks(seen, Fill(d, seen)) /\ Fill(d, seen).engine = seen.engine
    BY <1>2, FillSame
  <1>5. /\ r.life = s.life /\ r.isPrimary = s.isPrimary /\ r.ops = s.ops
        /\ r.engine = s.engine
        /\ \/ r.promises = s.promises /\ r.cached = s.cached /\ b \notin s.cached
           \/ /\ r.promises = s.promises /\ r.cached = s.cached \cup {b}
              /\ state = "pending"
           \/ r.promises = s.promises \ {b} /\ r.cached = s.cached \ {b}
    BY <1>1, <1>2, <1>3, <1>4 DEF SameTasks
  <1>. QED BY <1>5 DEF r

-----------------------------------------------------------------------------
(* The SyncEngine and the lease.                                           *)

LEMMA FollowsSame ==
  ASSUME NEW s, NEW r, r.ops = s.ops, r.engine = s.engine, r.isPrimary = s.isPrimary,
         FollowsLease(s)
  PROVE  FollowsLease(r)
  BY DEF FollowsLease, Changes

(* A change of the primary state is the last one.                          *)
LEMMA SetPrimaryFollows ==
  ASSUME NEW s \in TabStates, NEW value \in BOOLEAN
  PROVE  FollowsLease(SetPrimary(s, value))
  <1>. DEFINE r == SetPrimary(s, value)
              n == Len(s.ops)
  <1>1. /\ r.isPrimary = value /\ s.ops \in Seq(Ops) /\ PrimaryOp(value) \in Ops
        /\ r.ops = Append(s.ops, PrimaryOp(value))
    BY SetPrimarySame DEF TabStates, PrimaryOp, Ops
  <1>2. /\ DOMAIN r.ops = 1..n + 1 /\ r.ops[n + 1] = PrimaryOp(value) /\ n \in Nat
    BY <1>1
  <1>. HIDE DEF r, n
  <1>3. n + 1 \in Changes(r) /\ r.ops[n + 1].value = value
    BY <1>2 DEF Changes, PrimaryOp
  <1>4. \A j \in Changes(r) : j <= n + 1
    BY <1>2 DEF Changes
  <1>. QED BY <1>1, <1>3, <1>4 DEF FollowsLease, r

(* So a refresh keeps up.                                                  *)
LEMMA RefreshFollows ==
  ASSUME NEW t \in Tabs, NEW s \in TabStates, IsDatabase(db), FollowsLease(s)
  PROVE  FollowsLease(RefreshLease(db, t, s).tab)
  <1>1. ASSUME NEW v \in BOOLEAN, NEW w \in BOOLEAN
        PROVE  FollowsLease(SetPrimary(SetPrimary(s, v), w))
    BY SetPrimaryTyped, SetPrimaryFollows
  <1>. DEFINE r == RefreshLease(db, t, s).tab
  <1>2. \/ r = s
        \/ \E v \in BOOLEAN : r = SetPrimary(s, v)
        \/ \E v, w \in BOOLEAN : r = SetPrimary(SetPrimary(s, v), w)
    BY RefreshLeaseTyped
  <1>. HIDE DEF r
  <1>3. FollowsLease(r)
    BY <1>1, <1>2, SetPrimaryFollows
  <1>. QED BY <1>3 DEF r

(* News of batches do not matter.                                          *)
LEMMA AppendBatchFollows ==
  ASSUME NEW s \in TabStates, FollowsLease(s), NEW op \in Ops, op.kind # "primary",
         NEW r, r.ops = Append(s.ops, op), r.engine = s.engine, r.isPrimary = s.isPrimary
  PROVE  FollowsLease(r)
  <1>1. s.ops \in Seq(Ops)
    BY DEF TabStates
  <1>2. /\ DOMAIN s.ops = 1..Len(s.ops) /\ DOMAIN r.ops = 1..Len(s.ops) + 1
        /\ Len(s.ops) \in Nat /\ r.ops[Len(s.ops) + 1] = op
        /\ \A i \in DOMAIN s.ops : r.ops[i] = s.ops[i]
    BY <1>1
  <1>3. Changes(r) = Changes(s)
    BY <1>2 DEF Changes
  <1>. QED BY <1>2, <1>3 DEF FollowsLease, Changes

(* Taking a task off, and doing what it says, keeps up.                    *)
LEMMA TailFollows ==
  ASSUME NEW s \in TabStates, s.ops # << >>, FollowsLease(s), NEW r,
         r.ops = Tail(s.ops), r.isPrimary = s.isPrimary,
         r.engine = IF Head(s.ops).kind = "primary" THEN Head(s.ops).value ELSE s.engine
  PROVE  FollowsLease(r)
  <1>1. s.ops \in Seq(Ops)
    BY DEF TabStates
  <1>2. /\ DOMAIN s.ops = 1..Len(s.ops) /\ DOMAIN r.ops = 1..Len(s.ops) - 1
        /\ Len(s.ops) \in Nat \ {0} /\ Head(s.ops) = s.ops[1]
        /\ \A i \in DOMAIN r.ops : r.ops[i] = s.ops[i + 1]
    BY <1>1
  <1>3. \A i \in DOMAIN r.ops : i \in Changes(r) <=> i + 1 \in Changes(s)
    BY <1>2 DEF Changes
  <1>4. Changes(r) \subseteq DOMAIN r.ops /\ Changes(s) \subseteq DOMAIN s.ops
    BY DEF Changes
  <1>5. 1 \in Changes(s) <=> Head(s.ops).kind = "primary"
    BY <1>2 DEF Changes
  <1>6. CASE Changes(r) = {}
    <2>1. \A i \in Changes(s) : i = 1
      <3>1. ASSUME NEW i \in Changes(s), i # 1 PROVE FALSE
        <4>1. i \in 1..Len(s.ops)
          BY <1>2, <1>4
        <4>2. i - 1 \in DOMAIN r.ops /\ (i - 1) + 1 = i
          BY <1>2, <3>1, <4>1
        <4>. QED BY <1>3, <1>6, <4>1, <4>2
      <3>. QED BY <3>1
    <2>2. CASE Head(s.ops).kind = "primary"
      BY <1>2, <1>5, <1>6, <2>1, <2>2 DEF FollowsLease
    <2>3. CASE Head(s.ops).kind # "primary"
      <3>1. Changes(s) = {}
        BY <1>5, <2>1, <2>3
      <3>. QED BY <1>6, <2>3, <3>1 DEF FollowsLease
    <2>. QED BY <2>2, <2>3
  <1>7. CASE Changes(r) # {}
    <2>1. PICK k \in Changes(r) : k + 1 \in Changes(s)
      BY <1>3, <1>4, <1>7
    <2>2. PICK i \in Changes(s) : (\A j \in Changes(s) : j <= i) /\ s.ops[i].value = s.isPrimary
      BY <2>1 DEF FollowsLease
    <2>3. i - 1 \in DOMAIN r.ops /\ (i - 1) + 1 = i
      BY <1>2, <1>4, <2>1, <2>2
    <2>4. i - 1 \in Changes(r) /\ r.ops[i - 1].value = r.isPrimary
      BY <1>2, <1>3, <2>2, <2>3
    <2>5. ASSUME NEW j \in Changes(r) PROVE j <= i - 1
      <3>1. j + 1 \in Changes(s) /\ j \in Nat /\ i \in Nat
        BY <1>2, <1>3, <1>4
      <3>. QED BY <2>2, <3>1
    <2>. QED BY <1>7, <2>4, <2>5 DEF FollowsLease
  <1>. QED BY <1>6, <1>7

(* A step that changes one tab, which keeps up unless it has ended.        *)
LEMMA FollowsKept ==
  ASSUME TypeOK, EngineFollowsLease, NEW t \in Tabs, NEW s,
         tab' = [tab EXCEPT ![t] = s], FollowsLease(s) \/ s.life \in {"dead", "failed"}
  PROVE  EngineFollowsLease'
  BY DEF TypeOK, EngineFollowsLease, Running, FollowsLease, Changes

LEMMA FollowsStep == TypeOK /\ TypeOK' /\ EngineFollowsLease /\ [Next]_vars
                       => EngineFollowsLease'
  <1>. SUFFICES ASSUME TypeOK, TypeOK', EngineFollowsLease, [Next]_vars
                PROVE  EngineFollowsLease'
    OBVIOUS
  <1>a. /\ IsDatabase(db) /\ tab \in [Tabs -> TabStates] /\ tab' \in [Tabs -> TabStates]
        /\ db.last \in Nat
    BY DEF TypeOK, IsDatabase
  <1>b. \A t \in Tabs : Running(t) => FollowsLease(tab[t])
    BY DEF EngineFollowsLease
  <1>1. ASSUME NEW t \in Tabs, Open(t) PROVE EngineFollowsLease'
    <2>. DEFINE o == [tab[t] EXCEPT !.life = "open", !.visible = FALSE]
                r == RefreshLease(db, t, o)
                s == [r.tab EXCEPT !.ops = << >>, !.visible = tab[t].visible]
                e == ApplyPrimaryState(r.db, s, s.isPrimary)
    <2>1. tab' = [tab EXCEPT ![t] = e]
      BY <1>1 DEF Open
    <2>2. o \in TabStates
      BY <1>a DEF TabStates
    <2>. HIDE DEF o
    <2>3. IsDatabase(r.db) /\ r.tab \in TabStates
      BY <1>a, <2>2, RefreshLeaseTyped
    <2>. HIDE DEF r
    <2>4. s \in TabStates /\ s.isPrimary \in BOOLEAN /\ s.ops = << >>
      <3>1. << >> \in Seq(Ops) /\ tab[t].visible \in BOOLEAN
        BY <1>a DEF TabStates
      <3>. QED BY <2>3, <3>1 DEF TabStates
    <2>. HIDE DEF s
    <2>5. e.engine = s.isPrimary /\ e.isPrimary = s.isPrimary /\ e.ops = << >>
      BY <2>3, <2>4, ApplyPrimaryStateTyped, ApplyPrimaryStateSame DEF SameTasks
    <2>6. FollowsLease(e)
      BY <2>5 DEF FollowsLease, Changes
    <2>. HIDE DEF e
    <2>. QED BY <2>1, <2>6, FollowsKept
  <1>2. ASSUME NEW t \in Tabs, Refresh(t) PROVE EngineFollowsLease'
    <2>1. tab[t] \in TabStates /\ FollowsLease(tab[t])
      BY <1>a, <1>b, <1>2 DEF Refresh, RefreshIsDue
    <2>2. FollowsLease(RefreshLease(db, t, tab[t]).tab)
      BY <1>a, <2>1, RefreshFollows
    <2>3. tab' = [tab EXCEPT ![t] = RefreshLease(db, t, tab[t]).tab]
      BY <1>2 DEF Refresh
    <2>. QED BY <2>2, <2>3, FollowsKept
  <1>3. ASSUME NEW t \in Tabs, CollectClients(t) PROVE EngineFollowsLease'
    <2>1. PICK s \in {tab[t], LoseLease(tab[t])} : tab' = [tab EXCEPT ![t] = s]
      BY <1>a, <1>3 DEF CollectClients
    <2>2. tab[t] \in TabStates /\ FollowsLease(tab[t])
      BY <1>a, <1>b, <1>3 DEF CollectClients
    <2>3. FollowsLease(s)
      BY <2>1, <2>2, SetPrimaryFollows DEF LoseLease
    <2>. QED BY <2>1, <2>3, FollowsKept
  <1>4. ASSUME NEW t \in Tabs, RunOp(t) PROVE EngineFollowsLease'
    <2>. DEFINE op == Head(tab[t].ops)
                s  == [tab[t] EXCEPT !.ops = Tail(@)]
    <2>1. /\ tab[t] \in TabStates /\ tab[t].ops \in Seq(Ops) /\ tab[t].ops # << >>
          /\ FollowsLease(tab[t])
      BY <1>a, <1>b, <1>4 DEF RunOp, TabStates
    <2>2. op \in Ops /\ Tail(tab[t].ops) \in Seq(Ops)
      BY <2>1
    <2>3. /\ s \in TabStates /\ s.ops = Tail(tab[t].ops)
          /\ s.isPrimary = tab[t].isPrimary /\ s.engine = tab[t].engine
      BY <2>1, <2>2 DEF TabStates
    <2>4. CASE op.kind = "primary"
      <3>. DEFINE r == ApplyPrimaryState(db, s, op.value)
      <3>1. op.value \in BOOLEAN
        BY <2>2, <2>4 DEF Ops
      <3>2. r.engine = op.value /\ SameTasks(s, r)
        BY <1>a, <2>3, <3>1, ApplyPrimaryStateTyped, ApplyPrimaryStateSame
      <3>3. tab' = [tab EXCEPT ![t] = r]
        BY <1>4, <2>4 DEF RunOp
      <3>. HIDE DEF r, s
      <3>4. FollowsLease(r)
        BY <2>1, <2>3, <2>4, <3>2, TailFollows DEF SameTasks
      <3>. QED BY <3>3, <3>4, FollowsKept
    <2>5. CASE op.kind # "primary"
      <3>. DEFINE r == ApplyBatchState(db, s, op.kind, op.batch)
      <3>1. op.batch \in Nat
        BY <2>2, <2>5 DEF Ops
      <3>. HIDE DEF s, op
      <3>2. r.engine = s.engine /\ r.isPrimary = s.isPrimary /\ r.ops = s.ops
        BY <1>a, <2>3, <3>1, ApplyBatchStateSame
      <3>3. tab' = [tab EXCEPT ![t] = r] \/ tab' = [tab EXCEPT ![t] = s]
        BY <1>4, <2>5 DEF RunOp, s, op
      <3>. USE DEF op
      <3>. HIDE DEF r
      <3>4. FollowsLease(r) /\ FollowsLease(s)
        BY <2>1, <2>3, <2>5, <3>2, TailFollows
      <3>. QED BY <3>3, <3>4, FollowsKept
    <2>. QED BY <2>4, <2>5
  <1>5. ASSUME NEW t \in Tabs, NEW s \in TabStates, NEW b \in Nat,
               NEW state \in {"pending", "acknowledged"},
               SameTasks(tab[t], s) \/ FollowsLease(s), s.life = tab[t].life,
               s.engine = tab[t].engine, s.isPrimary = tab[t].isPrimary, s.ops = tab[t].ops,
               tab' = Told([tab EXCEPT ![t] = s], t, BatchOp(state, b))
        PROVE  EngineFollowsLease'
    <2>. DEFINE f == [tab EXCEPT ![t] = s]
    <2>1. f \in [Tabs -> TabStates] /\ BatchOp(state, b) \in Ops
          /\ BatchOp(state, b).kind # "primary"
      BY <1>a DEF BatchOp, Ops
    <2>2. \A u \in Tabs : /\ f[u].engine = tab[u].engine /\ f[u].ops = tab[u].ops
                          /\ f[u].isPrimary = tab[u].isPrimary /\ f[u].life = tab[u].life
      BY <1>a, <1>5
    <2>3. tab' = Told(f, t, BatchOp(state, b))
      BY <1>5
    <2>. HIDE DEF f
    <2>4. ASSUME NEW u \in Tabs, tab'[u].life \in {"open", "closing"}
          PROVE  FollowsLease(tab'[u])
      <3>1. SameButPrimary(f[u], tab'[u]) /\ tab'[u].isPrimary = f[u].isPrimary
            /\ tab'[u].ops = IF u # t /\ Listens(u)
                               THEN Append(f[u].ops, BatchOp(state, b)) ELSE f[u].ops
        BY <2>1, <2>3, ToldSame
      <3>2. Running(u) /\ FollowsLease(tab[u])
        BY <1>b, <2>2, <2>4, <3>1 DEF Running, SameButPrimary
      <3>3. FollowsLease(f[u]) /\ f[u] \in TabStates
        BY <2>1, <2>2, <3>2, FollowsSame
      <3>. QED BY <2>1, <3>1, <3>3, FollowsSame, AppendBatchFollows DEF SameButPrimary
    <2>. QED BY <2>4 DEF EngineFollowsLease, Running, FollowsLease, Changes
  <1>6. ASSUME NEW t \in Tabs, Write(t) PROVE EngineFollowsLease'
    <2>. DEFINE b == db.last + 1
                d == [db EXCEPT !.queue = @ \cup {b}, !.last = b]
                s == [tab[t] EXCEPT !.cached = @ \cup {b}, !.promises = @ \cup {b}]
    <2>1. tab' = Told([tab EXCEPT ![t] = Fill(d, s)], t, BatchOp("pending", b)) /\ db' = d
      BY <1>6 DEF Write
    <2>2. b \in Nat /\ IsDatabase(d)
      BY <1>a, <2>1 DEF TypeOK
    <2>3. /\ s \in TabStates /\ s.life = tab[t].life /\ s.engine = tab[t].engine
          /\ s.isPrimary = tab[t].isPrimary /\ s.ops = tab[t].ops
      BY <1>a, <2>2 DEF TabStates
    <2>. HIDE DEF s, d, b
    <2>4. /\ Fill(d, s) \in TabStates /\ SameTasks(s, Fill(d, s))
          /\ Fill(d, s).engine = s.engine
      BY <2>2, <2>3, FillTyped, FillSame
    <2>5. FollowsLease(Fill(d, s))
      BY <1>b, <1>6, <2>3, <2>4, FollowsSame DEF Write, Running, SameTasks
    <2>. QED BY <1>5, <2>1, <2>2, <2>3, <2>4, <2>5 DEF SameTasks
  <1>7. ASSUME NEW t \in Tabs, OnMutationResult(t) PROVE EngineFollowsLease'
    <2>1. PICK b \in tab[t].pipeline : OnResultOf(t, b)
      BY <1>7 DEF OnMutationResult
    <2>. DEFINE s == Popped(tab[t], b)
                d == Acknowledged(db, t, b)
                done == [s EXCEPT !.promises = @ \ {b}, !.cached = @ \ {b}]
    <2>2. b \in Nat /\ tab[t] \in TabStates /\ FollowsLease(tab[t])
      BY <1>a, <1>b, <2>1 DEF OnResultOf, IsAnswered, TabStates
    <2>3. /\ s \in TabStates /\ done \in TabStates
          /\ done.life = tab[t].life /\ done.engine = tab[t].engine
          /\ done.isPrimary = tab[t].isPrimary /\ done.ops = tab[t].ops
      BY <2>2 DEF Popped, TabStates
    <2>4. IsDatabase(d)
      <3>1. IsDatabase([db EXCEPT !.queue = @ \ {b}])
        BY <1>a DEF IsDatabase
      <3>. QED BY <3>1, HeldTyped DEF Acknowledged
    <2>. HIDE DEF s, d, done
    <2>5. CASE tab' = [tab EXCEPT ![t] = Fill(db, LoseLease(s))]
      <3>1. LoseLease(s) \in TabStates /\ FollowsLease(LoseLease(s))
        BY <2>3, SetPrimaryTyped, SetPrimaryFollows DEF LoseLease
      <3>2. FollowsLease(Fill(db, LoseLease(s)))
        BY <3>1, FillSame, FollowsSame DEF SameTasks
      <3>. QED BY <2>5, <3>2, FollowsKept
    <2>6. CASE tab' = Told([tab EXCEPT ![t] = Fill(d, done)], t, BatchOp("acknowledged", b))
      <3>1. /\ Fill(d, done) \in TabStates /\ SameTasks(done, Fill(d, done))
            /\ Fill(d, done).engine = done.engine
        BY <2>3, <2>4, FillTyped, FillSame
      <3>2. FollowsLease(Fill(d, done))
        BY <2>2, <2>3, <3>1, FollowsSame DEF SameTasks
      <3>. QED BY <1>5, <2>2, <2>3, <2>6, <3>1, <3>2 DEF SameTasks
    <2>7. ASSUME NEW l \in {"dead", "failed"}, tab' = [tab EXCEPT ![t].life = l]
          PROVE  EngineFollowsLease'
      <3>1. [tab[t] EXCEPT !.life = l].life = l
        BY <2>2 DEF TabStates
      <3>. QED BY <2>7, <3>1, FollowsKept
    <2>. QED BY <2>1, <2>5, <2>6, <2>7 DEF OnResultOf, d, s, done
  <1>8. ASSUME NEW t \in Tabs, SwitchNetwork(t) PROVE EngineFollowsLease'
    <2>. DEFINE off == [tab[t] EXCEPT !.network = FALSE]
                on  == [tab[t] EXCEPT !.network = TRUE]
    <2>1. /\ off \in TabStates /\ on \in TabStates
          /\ on.ops = tab[t].ops /\ on.engine = tab[t].engine /\ on.isPrimary = tab[t].isPrimary
          /\ off.ops = tab[t].ops /\ off.engine = tab[t].engine
          /\ off.isPrimary = tab[t].isPrimary
      BY <1>a DEF TabStates
    <2>2. PICK s \in {StreamClosed(off), Fill(db, on)} : tab' = [tab EXCEPT ![t] = s]
      BY <1>8 DEF SwitchNetwork
    <2>3. FollowsLease(tab[t])
      BY <1>b, <1>8 DEF SwitchNetwork, Running
    <2>. HIDE DEF on, off
    <2>4. FollowsLease(on) /\ FollowsLease(off)
      BY <2>1, <2>3, FollowsSame
    <2>5. FollowsLease(s)
      BY <2>1, <2>2, <2>4, FillSame, StreamClosedSame, FollowsSame DEF SameTasks
    <2>. QED BY <2>2, <2>5, FollowsKept
  <1>9. ASSUME NEW t \in Tabs, SwitchVisibility(t) PROVE EngineFollowsLease'
    <2>. DEFINE s == [tab[t] EXCEPT !.visible = ~@]
    <2>1. s \in TabStates /\ s.ops = tab[t].ops /\ s.engine = tab[t].engine
          /\ s.isPrimary = tab[t].isPrimary
      BY <1>a DEF TabStates
    <2>2. tab' = [tab EXCEPT ![t] = RefreshLease(db, t, s).tab]
      BY <1>9 DEF SwitchVisibility
    <2>3. FollowsLease(tab[t])
      BY <1>b, <1>9 DEF SwitchVisibility, Running
    <2>. HIDE DEF s
    <2>4. FollowsLease(RefreshLease(db, t, s).tab)
      BY <1>a, <2>1, <2>3, FollowsSame, RefreshFollows
    <2>. QED BY <2>2, <2>4, FollowsKept
  <1>10. ASSUME NEW t \in Tabs, BackendCommits(t) \/ StreamBreaks(t) \/ Close(t)
         PROVE  EngineFollowsLease'
    <2>1. FollowsLease(tab[t])
      BY <1>b, <1>10 DEF BackendCommits, StreamBreaks, Close, Running
    <2>2. tab[t] \in TabStates
      BY <1>a
    <2>3. CASE BackendCommits(t)
      <3>1. PICK b \in tab[t].pipeline :
              tab' = [tab EXCEPT ![t] = [tab[t] EXCEPT !.answered = @ \cup {b}]]
        BY <1>a, <2>3 DEF BackendCommits
      <3>. DEFINE s == [tab[t] EXCEPT !.answered = @ \cup {b}]
      <3>2. s.ops = tab[t].ops /\ s.engine = tab[t].engine /\ s.isPrimary = tab[t].isPrimary
        BY <2>2 DEF TabStates
      <3>. HIDE DEF s
      <3>3. FollowsLease(s)
        BY <2>1, <3>2, FollowsSame
      <3>. QED BY <3>1, <3>3, FollowsKept DEF s
    <2>4. CASE StreamBreaks(t) \/ Close(t)
      <3>1. PICK s \in {[tab[t] EXCEPT !.answered = {}], [tab[t] EXCEPT !.life = "closing"]} :
              tab' = [tab EXCEPT ![t] = s]
        BY <1>a, <2>4 DEF StreamBreaks, Close
      <3>2. s.ops = tab[t].ops /\ s.engine = tab[t].engine /\ s.isPrimary = tab[t].isPrimary
        BY <2>2, <3>1 DEF TabStates
      <3>3. FollowsLease(s)
        BY <2>1, <3>2, FollowsSame
      <3>. QED BY <3>1, <3>3, FollowsKept
    <2>. QED BY <1>10, <2>3, <2>4
  <1>11. ASSUME NEW t \in Tabs, Shutdown(t) \/ Die(t) PROVE EngineFollowsLease'
    <2>1. tab' = [tab EXCEPT ![t] = [tab[t] EXCEPT !.life = "dead"]]
      BY <1>a, <1>11 DEF Shutdown, Die
    <2>2. [tab[t] EXCEPT !.life = "dead"].life = "dead"
      BY <1>a DEF TabStates
    <2>. QED BY <2>1, <2>2, FollowsKept
  <1>12. CASE tab' = tab
    BY <1>12 DEF EngineFollowsLease, Running, FollowsLease, Changes
  <1>. QED
    BY <1>1, <1>2, <1>3, <1>4, <1>6, <1>7, <1>8, <1>9, <1>10, <1>11, <1>12
       DEF Next, Task, Tick, vars

(* What the SyncEngine of a tab last heard of the lease is what the tab's  *)
(* persistence layer knows.                                                *)
THEOREM EngineAlwaysFollows == Spec => []EngineFollowsLease
  <1>1. Init => EngineFollowsLease
    BY DEF Init, EngineFollowsLease, Running, NewTab
  <1>. QED BY <1>1, FollowsStep, TabsTyped, PTL DEF Spec

-----------------------------------------------------------------------------
(* The promises of writes.                                                 *)

(* Every promise of s is backed by batches or by news on the way.          *)
Backed(s, batches) ==
  \A b \in s.promises :
    b \in batches \/ BatchOp("acknowledged", b) \in Range(s.ops)

Backing == db.queue \cup untold

(* A tab knows the documents of the writes it promised (or the news of an  *)
(* acknowledgement would be ignored), and one that has not started has     *)
(* promised nothing.                                                       *)
Heard ==
  /\ \A t \in Tabs : Listens(t) => Backed(tab[t], Backing)
  /\ \A t \in Tabs : tab[t].promises \subseteq tab[t].cached
  /\ \A t \in Tabs : tab[t].life = "new" => tab[t].promises = {}

LEMMA AppendRange ==
  ASSUME NEW ops \in Seq(Ops), NEW op \in Ops
  PROVE  Range(Append(ops, op)) = Range(ops) \cup {op}
  <1>. DEFINE r == Append(ops, op)
              n == Len(ops)
  <1>1. /\ DOMAIN ops = 1..n /\ DOMAIN r = 1..n + 1 /\ n \in Nat
        /\ \A i \in 1..n : r[i] = ops[i]
        /\ r[n + 1] = op
    OBVIOUS
  <1>. HIDE DEF r, n
  <1>2. DOMAIN r = DOMAIN ops \cup {n + 1}
    BY <1>1
  <1>3. Range(r) = Range(ops) \cup {op}
    BY <1>1, <1>2 DEF Range
  <1>. QED BY <1>3 DEF r

LEMMA TailRange ==
  ASSUME NEW ops \in Seq(Ops), ops # << >>
  PROVE  Range(ops) \subseteq Range(Tail(ops)) \cup {Head(ops)}
  <1>. DEFINE r == Tail(ops)
              n == Len(ops)
  <1>1. /\ DOMAIN ops = 1..n /\ DOMAIN r = 1..n - 1 /\ n \in Nat \ {0}
        /\ \A i \in 1..n - 1 : r[i] = ops[i + 1]
        /\ Head(ops) = ops[1]
    OBVIOUS
  <1>. HIDE DEF r, n
  <1>2. ASSUME NEW i \in 1..n PROVE ops[i] \in Range(r) \cup {Head(ops)}
    <2>1. CASE i = 1
      BY <1>1, <2>1
    <2>2. CASE i # 1
      <3>1. i - 1 \in DOMAIN r /\ r[i - 1] = ops[i]
        BY <1>1, <2>2
      <3>. QED BY <3>1 DEF Range
    <2>. QED BY <2>1, <2>2
  <1>3. Range(ops) \subseteq Range(r) \cup {Head(ops)}
    BY <1>1, <1>2 DEF Range
  <1>. QED BY <1>3 DEF r

(* Fewer promises and more news are no harm.                               *)
LEMMA BackedGrows ==
  ASSUME NEW s, NEW r, NEW less, NEW more, Backed(s, less), less \subseteq more,
         r.promises \subseteq s.promises, Range(s.ops) \subseteq Range(r.ops)
  PROVE  Backed(r, more)
  BY DEF Backed

(* A refresh adds news and leaves promises and documents alone.            *)
LEMMA RefreshBacked ==
  ASSUME NEW t \in Tabs, NEW s \in TabStates, IsDatabase(db)
  PROVE  LET r == RefreshLease(db, t, s).tab
         IN  /\ r \in TabStates
             /\ r.life = s.life /\ r.promises = s.promises /\ r.cached = s.cached
             /\ Range(s.ops) \subseteq Range(r.ops)
             /\ RefreshLease(db, t, s).db.queue = db.queue
  <1>. DEFINE r == RefreshLease(db, t, s).tab
  <1>1. ASSUME NEW q \in TabStates, NEW v \in BOOLEAN
        PROVE  Range(q.ops) \subseteq Range(SetPrimary(q, v).ops)
    <2>1. q.ops \in Seq(Ops) /\ PrimaryOp(v) \in Ops
      BY DEF TabStates, PrimaryOp, Ops
    <2>. QED BY <2>1, SetPrimarySame, AppendRange
  <1>2. ASSUME NEW v \in BOOLEAN, NEW w \in BOOLEAN
        PROVE  Range(s.ops) \subseteq Range(SetPrimary(SetPrimary(s, v), w).ops)
    <2>1. SetPrimary(s, v) \in TabStates
      BY SetPrimaryTyped
    <2>. QED BY <1>1, <2>1
  <1>3. /\ r \in TabStates /\ SameButPrimary(s, r)
        /\ RefreshLease(db, t, s).db.queue = db.queue
        /\ \/ r = s
           \/ \E v \in BOOLEAN : r = SetPrimary(s, v)
           \/ \E v, w \in BOOLEAN : r = SetPrimary(SetPrimary(s, v), w)
    BY RefreshLeaseTyped
  <1>. HIDE DEF r
  <1>4. Range(s.ops) \subseteq Range(r.ops)
    BY <1>1, <1>2, <1>3
  <1>. QED BY <1>3, <1>4 DEF SameButPrimary, r

(* A step that changes one tab.                                            *)
LEMMA HeardKept ==
  ASSUME TypeOK, Heard, NEW t \in Tabs, NEW s, tab' = [tab EXCEPT ![t] = s],
         Backing \subseteq Backing',
         s.promises \subseteq s.cached, s.life # "new" \/ s.promises = {},
         s.life = "open" => Backed(s, Backing')
  PROVE  Heard'
  <1>1. \A u \in Tabs : tab'[u] = IF u = t THEN s ELSE tab[u]
    BY DEF TypeOK
  <1>2. ASSUME NEW u \in Tabs, Listens(u)' PROVE Backed(tab'[u], Backing')
    <2>1. CASE u = t
      BY <1>1, <1>2, <2>1 DEF Listens
    <2>2. CASE u # t
      <3>1. tab'[u] = tab[u] /\ Backed(tab[u], Backing)
        BY <1>1, <1>2, <2>2 DEF Listens, Heard
      <3>. QED BY <3>1, BackedGrows
    <2>. QED BY <2>1, <2>2
  <1>3. \A u \in Tabs : /\ tab'[u].promises \subseteq tab'[u].cached
                        /\ tab'[u].life = "new" => tab'[u].promises = {}
    BY <1>1 DEF Heard
  <1>. QED BY <1>2, <1>3 DEF Heard, Backed

(* A step after which the others are told of batch b.                      *)
LEMMA HeardTold ==
  ASSUME TypeOK, Heard, NEW t \in Tabs, NEW s \in TabStates, NEW b \in Nat,
         NEW state \in {"pending", "acknowledged"},
         tab' = Told([tab EXCEPT ![t] = s], t, BatchOp(state, b)),
         Backing \subseteq Backing' \cup (IF state = "acknowledged" THEN {b} ELSE {}),
         Running(t), s.life = tab[t].life,
         s.promises \subseteq s.cached, s.life = "open" => Backed(s, Backing')
  PROVE  Heard'
  <1>. DEFINE f == [tab EXCEPT ![t] = s]
  <1>0. tab \in [Tabs -> TabStates]
    BY DEF TypeOK
  <1>1. /\ f \in [Tabs -> TabStates] /\ BatchOp(state, b) \in Ops
        /\ \A u \in Tabs : f[u] = IF u = t THEN s ELSE tab[u]
    BY <1>0 DEF BatchOp, Ops
  <1>2. tab' = Told(f, t, BatchOp(state, b))
    OBVIOUS
  <1>. HIDE DEF f
  <1>3. ASSUME NEW u \in Tabs
        PROVE  SameButPrimary(f[u], tab'[u])
               /\ tab'[u].ops = IF u # t /\ Listens(u)
                                  THEN Append(f[u].ops, BatchOp(state, b)) ELSE f[u].ops
    BY <1>1, <1>2, ToldSame
  <1>4. ASSUME NEW u \in Tabs, Listens(u)' PROVE Backed(tab'[u], Backing')
    <2>1. CASE u = t
      <3>1. /\ tab'[u].promises = s.promises /\ tab'[u].ops = s.ops
            /\ s.life = "open"
        BY <1>1, <1>3, <1>4, <2>1 DEF SameButPrimary, Listens
      <3>. QED BY <3>1, BackedGrows
    <2>2. CASE u # t
      <3>1. /\ f[u] = tab[u] /\ tab'[u].promises = tab[u].promises
            /\ tab'[u].life = tab[u].life
        BY <1>1, <1>3, <2>2 DEF SameButPrimary
      <3>2. Listens(u) /\ Backed(tab[u], Backing)
        BY <1>4, <3>1 DEF Listens, Heard
      <3>3. tab'[u].ops = Append(tab[u].ops, BatchOp(state, b))
        BY <1>3, <2>2, <3>1, <3>2
      <3>4. tab[u].ops \in Seq(Ops)
        BY <1>0 DEF TabStates
      <3>5. Range(tab'[u].ops) = Range(tab[u].ops) \cup {BatchOp(state, b)}
        BY <1>1, <3>3, <3>4, AppendRange
      <3>. QED BY <3>1, <3>2, <3>5 DEF Backed
    <2>. QED BY <2>1, <2>2
  <1>5. ASSUME NEW u \in Tabs
        PROVE  /\ tab'[u].promises \subseteq tab'[u].cached
               /\ tab'[u].life = "new" => tab'[u].promises = {}
    <2>1. /\ tab'[u].promises = f[u].promises /\ tab'[u].cached = f[u].cached
          /\ tab'[u].life = f[u].life
      BY <1>3 DEF SameButPrimary
    <2>2. f[t].life # "new"
      BY <1>1 DEF Running
    <2>. QED BY <1>1, <2>1, <2>2 DEF Heard
  <1>. QED BY <1>4, <1>5 DEF Heard, Backed

(* What keeps the tasks of a tab keeps its promises.                       *)
LEMMA HeardSame ==
  ASSUME TypeOK, Heard, NEW t \in Tabs, Running(t), NEW s, tab' = [tab EXCEPT ![t] = s],
         Backing \subseteq Backing',
         s.promises = tab[t].promises, s.cached = tab[t].cached,
         Range(tab[t].ops) \subseteq Range(s.ops), s.life \in {tab[t].life, "closing"}
  PROVE  Heard'
  <1>1. (Listens(t) => Backed(tab[t], Backing)) /\ s.promises \subseteq s.cached
    BY DEF Heard
  <1>2. s.life = "open" => Backed(s, Backing')
    BY <1>1, BackedGrows DEF Listens
  <1>3. s.life # "new"
    BY DEF Running
  <1>. QED BY <1>1, <1>2, <1>3, HeardKept

LEMMA HeardStep == TypeOK /\ TypeOK' /\ Heard /\ [Next]_vars => Heard'
  <1>. SUFFICES ASSUME TypeOK, TypeOK', Heard, [Next]_vars
                PROVE  Heard'
    OBVIOUS
  <1>a. /\ IsDatabase(db) /\ tab \in [Tabs -> TabStates]
        /\ db.last \in Nat /\ db.queue \subseteq Nat
    BY DEF TypeOK, IsDatabase
  <1>b. ASSUME NEW t \in Tabs, Running(t)
        PROVE  /\ tab[t].life = "open" => Backed(tab[t], Backing)
               /\ tab[t].promises \subseteq tab[t].cached
               /\ tab[t].life # "new" /\ tab[t] \in TabStates
    BY <1>a, <1>b DEF Heard, Running, Listens
  <1>1. ASSUME NEW t \in Tabs, Open(t) PROVE Heard'
    <2>. DEFINE o == [tab[t] EXCEPT !.life = "open", !.visible = FALSE]
                r == RefreshLease(db, t, o)
                s == [r.tab EXCEPT !.ops = << >>, !.visible = tab[t].visible]
                e == ApplyPrimaryState(r.db, s, s.isPrimary)
    <2>1. tab' = [tab EXCEPT ![t] = e] /\ db' = r.db /\ untold' = untold
      BY <1>1 DEF Open
    <2>2. o \in TabStates /\ o.promises = {}
      BY <1>a, <1>1 DEF TabStates, Open, Heard
    <2>. HIDE DEF o
    <2>3. /\ IsDatabase(r.db) /\ r.tab \in TabStates /\ r.tab.promises = {}
          /\ r.db.queue = db.queue
      <3>1. IsDatabase(r.db) /\ r.db.queue = db.queue
        BY <1>a, <2>2, RefreshLeaseTyped
      <3>2. r.tab \in TabStates /\ r.tab.promises = o.promises
        BY <1>a, <2>2, RefreshBacked
      <3>. QED BY <2>2, <3>1, <3>2
    <2>. HIDE DEF r
    <2>4. s \in TabStates /\ s.isPrimary \in BOOLEAN /\ s.promises = {}
      <3>1. << >> \in Seq(Ops) /\ tab[t].visible \in BOOLEAN
        BY <1>a DEF TabStates
      <3>. QED BY <2>3, <3>1 DEF TabStates
    <2>. HIDE DEF s
    <2>5. e.promises = {}
      BY <2>3, <2>4, ApplyPrimaryStateSame DEF SameTasks
    <2>. HIDE DEF e
    <2>6. Backed(e, Backing') /\ Backing \subseteq Backing' /\ e.promises \subseteq e.cached
      BY <2>1, <2>3, <2>5 DEF Backed, Backing
    <2>. QED BY <2>1, <2>5, <2>6, HeardKept
  <1>2. ASSUME NEW t \in Tabs, Refresh(t) PROVE Heard'
    <2>. DEFINE r == RefreshLease(db, t, tab[t])
    <2>1. Running(t) /\ tab' = [tab EXCEPT ![t] = r.tab] /\ db' = r.db /\ untold' = untold
      BY <1>2 DEF Refresh, RefreshIsDue
    <2>2. /\ r.tab.life = tab[t].life /\ r.tab.promises = tab[t].promises
          /\ r.tab.cached = tab[t].cached /\ Range(tab[t].ops) \subseteq Range(r.tab.ops)
          /\ r.db.queue = db.queue
      BY <1>a, RefreshBacked
    <2>. HIDE DEF r
    <2>3. Backing \subseteq Backing'
      BY <2>1, <2>2 DEF Backing
    <2>. QED BY <1>b, <2>1, <2>2, <2>3, HeardSame
  <1>3. ASSUME NEW t \in Tabs, CollectClients(t) PROVE Heard'
    <2>1. Running(t) /\ untold' = untold /\ tab[t] \in TabStates
      BY <1>a, <1>3 DEF CollectClients
    <2>2. db'.queue = db.queue
      BY <1>a, <1>3 DEF CollectClients, Held, IsDatabase
    <2>3. PICK s \in {tab[t], LoseLease(tab[t])} : tab' = [tab EXCEPT ![t] = s]
      BY <1>a, <1>3 DEF CollectClients
    <2>4. tab[t].ops \in Seq(Ops) /\ PrimaryOp(FALSE) \in Ops
      BY <2>1 DEF TabStates, PrimaryOp, Ops
    <2>5. /\ s.life = tab[t].life /\ s.promises = tab[t].promises
          /\ s.cached = tab[t].cached /\ Range(tab[t].ops) \subseteq Range(s.ops)
      <3>1. CASE s = tab[t]
        BY <3>1
      <3>2. CASE s = LoseLease(tab[t])
        <4>1. s = SetPrimary(tab[t], FALSE)
          BY <3>2 DEF LoseLease
        <4>2. SameButPrimary(tab[t], s) /\ s.ops = Append(tab[t].ops, PrimaryOp(FALSE))
          BY <2>1, <4>1, SetPrimarySame
        <4>3. Range(s.ops) = Range(tab[t].ops) \cup {PrimaryOp(FALSE)}
          BY <2>4, <4>2, AppendRange
        <4>. QED BY <4>2, <4>3 DEF SameButPrimary
      <3>. QED BY <3>1, <3>2
    <2>6. Backing \subseteq Backing'
      BY <2>1, <2>2 DEF Backing
    <2>. QED BY <1>b, <2>1, <2>3, <2>5, <2>6, HeardSame
  <1>4. ASSUME NEW t \in Tabs, RunOp(t) PROVE Heard'
    <2>. DEFINE op == Head(tab[t].ops)
                s  == [tab[t] EXCEPT !.ops = Tail(@)]
    <2>1. /\ Running(t) /\ tab[t] \in TabStates /\ tab[t].ops \in Seq(Ops)
          /\ tab[t].ops # << >> /\ db' = db /\ untold' = untold
          /\ tab' = [tab EXCEPT ![t] =
                       IF op.kind = "primary" THEN ApplyPrimaryState(db, s, op.value)
                       ELSE IF Listens(t) THEN ApplyBatchState(db, s, op.kind, op.batch)
                       ELSE s]
      BY <1>a, <1>4 DEF RunOp, TabStates
    <2>2. /\ op \in Ops /\ Tail(tab[t].ops) \in Seq(Ops)
          /\ Range(tab[t].ops) \subseteq Range(Tail(tab[t].ops)) \cup {op}
      BY <2>1, TailRange
    <2>3. /\ s \in TabStates /\ s.ops = Tail(tab[t].ops) /\ s.life = tab[t].life
          /\ s.promises = tab[t].promises /\ s.cached = tab[t].cached
      BY <2>1, <2>2 DEF TabStates
    <2>4. Backing \subseteq Backing' /\ Backing' = Backing
      BY <2>1 DEF Backing
    <2>. HIDE DEF s, op
    <2>5. CASE op.kind = "primary"
      <3>. DEFINE r == ApplyPrimaryState(db, s, op.value)
      <3>1. op.value \in BOOLEAN /\ \A b : op # BatchOp("acknowledged", b)
        BY <2>2, <2>5 DEF Ops, BatchOp
      <3>2. SameTasks(s, r)
        BY <1>a, <2>3, <3>1, ApplyPrimaryStateSame
      <3>3. tab' = [tab EXCEPT ![t] = r]
        BY <2>1, <2>5
      <3>. HIDE DEF r
      <3>4. r.life = "open" => Backed(r, Backing')
        <4>. SUFFICES ASSUME r.life = "open" PROVE Backed(r, Backing')
          OBVIOUS
        <4>1. Backed(tab[t], Backing)
          BY <1>b, <2>1, <2>3, <3>2 DEF SameTasks
        <4>. QED BY <2>2, <2>3, <2>4, <3>1, <3>2, <4>1 DEF Backed, SameTasks
      <3>5. r.promises \subseteq r.cached /\ r.life # "new"
        BY <1>b, <2>1, <2>3, <3>2 DEF SameTasks
      <3>. QED BY <2>4, <3>3, <3>4, <3>5, HeardKept
    <2>6. CASE op.kind # "primary" /\ Listens(t)
      <3>. DEFINE r == ApplyBatchState(db, s, op.kind, op.batch)
      <3>1. op.batch \in Nat /\ op = BatchOp(op.kind, op.batch)
        BY <2>2, <2>6 DEF Ops, BatchOp
      <3>2. /\ r.life = s.life /\ r.ops = s.ops
            /\ \/ r.promises = s.promises /\ r.cached = s.cached /\ op.batch \notin s.cached
               \/ /\ r.promises = s.promises /\ r.cached = s.cached \cup {op.batch}
                  /\ op.kind = "pending"
               \/ r.promises = s.promises \ {op.batch} /\ r.cached = s.cached \ {op.batch}
        BY <1>a, <2>3, <3>1, ApplyBatchStateSame
      <3>3. tab' = [tab EXCEPT ![t] = r]
        BY <2>1, <2>6
      <3>. HIDE DEF r
      <3>4. r.promises \subseteq r.cached /\ r.promises \subseteq s.promises
        BY <1>b, <2>1, <2>3, <3>2
      <3>5. ASSUME NEW b \in r.promises
            PROVE  b \in Backing' \/ BatchOp("acknowledged", b) \in Range(r.ops)
        <4>1. b \in Backing \/ BatchOp("acknowledged", b) \in Range(tab[t].ops)
          BY <1>b, <2>1, <2>3, <2>6, <3>4, <3>5 DEF Backed, Listens
        <4>2. BatchOp("acknowledged", b) # op
          <5>1. SUFFICES ASSUME BatchOp("acknowledged", b) = op PROVE FALSE
            OBVIOUS
          <5>2. op.kind = "acknowledged" /\ op.batch = b
            BY <5>1 DEF BatchOp
          <5>. QED BY <1>b, <2>1, <2>3, <3>2, <3>4, <3>5, <5>2
        <4>. QED BY <2>2, <2>3, <2>4, <3>2, <4>1, <4>2
      <3>6. Backed(r, Backing')
        BY <3>5 DEF Backed
      <3>. QED BY <1>b, <2>1, <2>3, <2>4, <3>2, <3>3, <3>4, <3>6, HeardKept
    <2>7. CASE op.kind # "primary" /\ ~Listens(t)
      <3>1. tab' = [tab EXCEPT ![t] = s]
        BY <2>1, <2>7
      <3>2. s.life # "open" /\ s.life # "new" /\ s.promises \subseteq s.cached
        BY <1>b, <2>1, <2>3, <2>7 DEF Listens
      <3>. QED BY <2>4, <3>1, <3>2, HeardKept
    <2>. QED BY <2>5, <2>6, <2>7
  <1>5. ASSUME NEW t \in Tabs, Write(t) PROVE Heard'
    <2>. DEFINE b == db.last + 1
                d == [db EXCEPT !.queue = @ \cup {b}, !.last = b]
                s == [tab[t] EXCEPT !.cached = @ \cup {b}, !.promises = @ \cup {b}]
                r == Fill(d, s)
    <2>1. /\ tab' = Told([tab EXCEPT ![t] = r], t, BatchOp("pending", b))
          /\ db' = d /\ untold' = untold /\ Running(t)
      BY <1>5 DEF Write, Running
    <2>2. b \in Nat /\ IsDatabase(d) /\ d.queue = db.queue \cup {b}
      BY <1>a, <2>1 DEF TypeOK, IsDatabase
    <2>3. /\ s \in TabStates /\ s.life = tab[t].life /\ s.ops = tab[t].ops
          /\ s.cached = tab[t].cached \cup {b} /\ s.promises = tab[t].promises \cup {b}
      BY <1>a, <2>2 DEF TabStates
    <2>. HIDE DEF s, d, b
    <2>4. r \in TabStates /\ SameTasks(s, r)
      BY <2>2, <2>3, FillTyped, FillSame
    <2>. HIDE DEF r
    <2>5. Backing' = Backing \cup {b}
      BY <2>1, <2>2 DEF Backing
    <2>6. (r.life = "open" => Backed(r, Backing')) /\ r.promises \subseteq r.cached
      BY <1>b, <2>1, <2>3, <2>4, <2>5 DEF Backed, SameTasks
    <2>7. r.life = tab[t].life
      BY <2>3, <2>4 DEF SameTasks
    <2>. QED BY <2>1, <2>2, <2>4, <2>5, <2>6, <2>7, HeardTold
  <1>6. ASSUME NEW t \in Tabs, OnMutationResult(t) PROVE Heard'
    <2>1. PICK b \in tab[t].pipeline : OnResultOf(t, b)
      BY <1>6 DEF OnMutationResult
    <2>. DEFINE s == Popped(tab[t], b)
                d == Acknowledged(db, t, b)
                done == [s EXCEPT !.promises = @ \ {b}, !.cached = @ \ {b}]
                lost == Fill(db, LoseLease(s))
                told == Fill(d, done)
    <2>2. b \in Nat /\ tab[t] \in TabStates /\ Running(t)
      BY <1>a, <2>1 DEF OnResultOf, IsAnswered, TabStates
    <2>3. /\ s \in TabStates /\ s.life = tab[t].life /\ s.ops = tab[t].ops
          /\ s.promises = tab[t].promises /\ s.cached = tab[t].cached
      BY <2>2 DEF Popped, TabStates
    <2>. HIDE DEF s
    <2>4. /\ done \in TabStates /\ done.life = tab[t].life /\ done.ops = tab[t].ops
          /\ done.promises = tab[t].promises \ {b} /\ done.cached = tab[t].cached \ {b}
      BY <2>3 DEF TabStates
    <2>5. IsDatabase(d) /\ d.queue = db.queue \ {b}
      <3>1. IsDatabase([db EXCEPT !.queue = @ \ {b}])
            /\ [db EXCEPT !.queue = @ \ {b}].queue = db.queue \ {b}
        BY <1>a DEF IsDatabase
      <3>. QED BY <3>1, HeldTyped DEF Acknowledged
    <2>. HIDE DEF d, done
    <2>6. CASE tab' = [tab EXCEPT ![t] = lost] /\ UNCHANGED <<db, untold>>
      <3>. DEFINE q == LoseLease(s)
      <3>1. q \in TabStates /\ SameButPrimary(s, q) /\ q.ops = Append(s.ops, PrimaryOp(FALSE))
        BY <2>3, SetPrimaryTyped, SetPrimarySame DEF LoseLease
      <3>2. Range(s.ops) \subseteq Range(q.ops)
        <4>1. s.ops \in Seq(Ops) /\ PrimaryOp(FALSE) \in Ops
          BY <2>3 DEF TabStates, PrimaryOp, Ops
        <4>. QED BY <3>1, <4>1, AppendRange
      <3>. HIDE DEF q
      <3>3. SameTasks(q, Fill(db, q))
        BY <3>1, FillSame
      <3>4. /\ lost.promises = tab[t].promises /\ lost.cached = tab[t].cached
            /\ Range(tab[t].ops) \subseteq Range(lost.ops) /\ lost.life = tab[t].life
        BY <2>3, <3>1, <3>2, <3>3 DEF SameTasks, SameButPrimary, q
      <3>5. Backing \subseteq Backing'
        BY <2>6 DEF Backing
      <3>. HIDE DEF lost
      <3>. QED BY <1>b, <2>2, <2>6, <3>4, <3>5, HeardSame
    <2>7. CASE /\ tab' = Told([tab EXCEPT ![t] = told], t, BatchOp("acknowledged", b))
               /\ db' = d /\ untold' = untold
      <3>1. told \in TabStates /\ SameTasks(done, told)
        BY <2>4, <2>5, FillTyped, FillSame
      <3>. HIDE DEF told
      <3>2. Backing \subseteq Backing' \cup {b}
        BY <2>5, <2>7 DEF Backing
      <3>3. told.promises \subseteq told.cached /\ (told.life = "open" => Backed(told, Backing'))
        BY <1>b, <2>2, <2>4, <3>1, <3>2 DEF Backed, SameTasks
      <3>4. told.life = tab[t].life
        BY <2>4, <3>1 DEF SameTasks
      <3>. QED BY <2>2, <2>7, <3>1, <3>2, <3>3, <3>4, HeardTold
    <2>8. ASSUME NEW l \in {"dead", "failed"}, tab' = [tab EXCEPT ![t].life = l],
                 Backing \subseteq Backing'
          PROVE  Heard'
      <3>. DEFINE r == [tab[t] EXCEPT !.life = l]
      <3>1. r.life = l /\ r.promises = tab[t].promises /\ r.cached = tab[t].cached
        BY <2>2 DEF TabStates
      <3>2. tab' = [tab EXCEPT ![t] = r]
        BY <2>8
      <3>. HIDE DEF r
      <3>. QED BY <1>b, <2>2, <2>8, <3>1, <3>2, HeardKept
    <2>9. CASE /\ tab' = [tab EXCEPT ![t].life = "dead"]
               /\ db' = d /\ untold' = untold \cup {b}
      <3>1. Backing \subseteq Backing'
        BY <2>5, <2>9 DEF Backing
      <3>. QED BY <2>8, <2>9, <3>1
    <2>10. CASE tab' = [tab EXCEPT ![t].life = "failed"] /\ UNCHANGED <<db, untold>>
      <3>1. Backing \subseteq Backing'
        BY <2>10 DEF Backing
      <3>. QED BY <2>8, <2>10, <3>1
    <2>. QED BY <2>1, <2>6, <2>7, <2>9, <2>10 DEF OnResultOf, d, s, done
  <1>7. ASSUME NEW t \in Tabs, SwitchNetwork(t) PROVE Heard'
    <2>. DEFINE off == [tab[t] EXCEPT !.network = FALSE]
                on  == [tab[t] EXCEPT !.network = TRUE]
    <2>1. Running(t) /\ db' = db /\ untold' = untold /\ tab[t] \in TabStates
      BY <1>a, <1>7 DEF SwitchNetwork, Running
    <2>2. /\ off \in TabStates /\ on \in TabStates
          /\ SameTasks(tab[t], on) /\ SameTasks(tab[t], off)
      BY <2>1 DEF TabStates, SameTasks
    <2>3. PICK s \in {StreamClosed(off), Fill(db, on)} : tab' = [tab EXCEPT ![t] = s]
      BY <1>7 DEF SwitchNetwork
    <2>. HIDE DEF on, off
    <2>4. SameTasks(tab[t], s)
      BY <2>2, <2>3, FillSame, StreamClosedSame DEF SameTasks
    <2>5. Backing \subseteq Backing'
      BY <2>1 DEF Backing
    <2>. QED BY <1>b, <2>1, <2>3, <2>4, <2>5, HeardSame DEF SameTasks
  <1>8. ASSUME NEW t \in Tabs, SwitchVisibility(t) PROVE Heard'
    <2>. DEFINE s == [tab[t] EXCEPT !.visible = ~@]
                r == RefreshLease(db, t, s)
    <2>1. Running(t) /\ tab[t] \in TabStates
      BY <1>a, <1>8 DEF SwitchVisibility, Running
    <2>2. s \in TabStates /\ SameTasks(tab[t], s)
      BY <2>1 DEF TabStates, SameTasks
    <2>3. tab' = [tab EXCEPT ![t] = r.tab] /\ db' = r.db /\ untold' = untold
      BY <1>8 DEF SwitchVisibility
    <2>. HIDE DEF s
    <2>4. /\ r.tab.life = s.life /\ r.tab.promises = s.promises /\ r.tab.cached = s.cached
          /\ Range(s.ops) \subseteq Range(r.tab.ops) /\ r.db.queue = db.queue
      BY <1>a, <2>2, RefreshBacked
    <2>. HIDE DEF r
    <2>5. Backing \subseteq Backing'
      BY <2>3, <2>4 DEF Backing
    <2>. QED BY <1>b, <2>1, <2>2, <2>3, <2>4, <2>5, HeardSame DEF SameTasks
  <1>9. ASSUME NEW t \in Tabs, BackendCommits(t) \/ StreamBreaks(t) \/ Close(t)
        PROVE Heard'
    <2>1. Running(t) /\ db' = db /\ untold' = untold /\ tab[t] \in TabStates
      BY <1>a, <1>9 DEF BackendCommits, StreamBreaks, Close, Running
    <2>2. \/ \E b \in tab[t].pipeline :
               tab' = [tab EXCEPT ![t] = [tab[t] EXCEPT !.answered = @ \cup {b}]]
          \/ tab' = [tab EXCEPT ![t] = [tab[t] EXCEPT !.answered = {}]]
          \/ tab' = [tab EXCEPT ![t] = [tab[t] EXCEPT !.life = "closing"]]
      BY <1>a, <1>9 DEF BackendCommits, StreamBreaks, Close
    <2>3. PICK s \in {[tab[t] EXCEPT !.answered = @ \cup {b}] : b \in tab[t].pipeline}
                       \cup {[tab[t] EXCEPT !.answered = {}], [tab[t] EXCEPT !.life = "closing"]} :
            tab' = [tab EXCEPT ![t] = s]
      BY <2>2
    <2>4. /\ s.promises = tab[t].promises /\ s.cached = tab[t].cached
          /\ s.ops = tab[t].ops /\ s.life \in {tab[t].life, "closing"}
      BY <2>1, <2>3 DEF TabStates
    <2>5. Backing \subseteq Backing'
      BY <2>1 DEF Backing
    <2>. QED BY <1>b, <2>1, <2>3, <2>4, <2>5, HeardSame
  <1>10. ASSUME NEW t \in Tabs, Shutdown(t) \/ Die(t) PROVE Heard'
    <2>. DEFINE s == [tab[t] EXCEPT !.life = "dead"]
    <2>1. tab' = [tab EXCEPT ![t] = s] /\ untold' = untold /\ db'.queue = db.queue
      BY <1>a, <1>10 DEF Shutdown, Die, Released, IsDatabase
    <2>2. s.life = "dead" /\ s.promises = tab[t].promises /\ s.cached = tab[t].cached
      BY <1>a DEF TabStates
    <2>3. Backing \subseteq Backing' /\ tab[t].promises \subseteq tab[t].cached
      BY <2>1 DEF Backing, Heard
    <2>. HIDE DEF s
    <2>. QED BY <2>1, <2>2, <2>3, HeardKept
  <1>11. CASE tab' = tab /\ db'.queue = db.queue /\ untold' = untold
    BY <1>11 DEF Heard, Listens, Backed, Backing
  <1>12. Tick => db'.queue = db.queue
    BY <1>a DEF Tick, IsDatabase
  <1>. QED
    BY <1>1, <1>2, <1>3, <1>4, <1>5, <1>6, <1>7, <1>8, <1>9, <1>10, <1>11, <1>12
       DEF Next, Task, Tick, vars

(* A write that was promised is in the queue or its news is on the way, in *)
(* every open tab, unless the tab that handled it died in between.         *)
THEOREM PromisesAlwaysHeard == Spec => []PromisesHeard
  <1>1. Init => Heard
    BY DEF Init, Heard, Listens, NewTab
  <1>2. Heard => PromisesHeard
    BY DEF Heard, PromisesHeard, Backed, Backing
  <1>. QED BY <1>1, <1>2, HeardStep, TabsTyped, PTL DEF Spec
=============================================================================
