---------------------------- MODULE ListenProofs ----------------------------
(***************************************************************************)
(* Real-time listens, for every set of keys and queries, every             *)
(* MaxLimbo and whatever the backend, the network, the transactions and    *)
(* the application do: the tables of limbo resolution agree, the           *)
(* aggregator counts the answers it waits for, the online state and the    *)
(* idle timer follow the stream, and an offline client shows no view as up *)
(* to date.  enableNetwork() is assumed to meet no stream that runs; what  *)
(* it does to one is checked by TLC.                                       *)
(*                                                                         *)
(* The inductive invariant, ListenInv of ListenTargetProofs, is the client *)
(* between two tasks of the AsyncQueue.  On the lemmas of that module rest *)
(* those about messages and rejected targets; then comes one lemma per     *)
(* action.                                                                 *)
(***************************************************************************)
EXTENDS ListenTargetProofs

-----------------------------------------------------------------------------
(* The messages of the stream.                                             *)

(* How many answers there are is a number.                                 *)
LEMMA ResponsesFinite ==
  ASSUME NEW q, IsSequence(q), NEW kinds, NEW t
  PROVE  /\ IsFiniteSet(ResponsesTo(q, kinds, t))
         /\ Cardinality(ResponsesTo(q, kinds, t)) \in Nat
<1>1. DOMAIN q = 1 .. Len(q) /\ Len(q) \in Nat
  BY AppendFacts
<1>2. ResponsesTo(q, kinds, t) \in SUBSET (1 .. Len(q))
  BY <1>1 DEF ResponsesTo
<1>3. IsFiniteSet(1 .. Len(q))
  BY <1>1, FS_Interval
<1>4. IsFiniteSet(ResponsesTo(q, kinds, t))
  BY <1>2, <1>3, FS_Subset
<1> QED BY <1>4, FS_CardinalityType

(* How many requests there are is one too.                                 *)
LEMMA AskedFinite ==
  ASSUME NEW r, RemoteShape(r), NEW t
  PROVE  IsFiniteSet(AskedOf(r, t)) /\ Cardinality(AskedOf(r, t)) \in Nat
<1>0. IsSequence(r.reqs)
  BY DEF RemoteShape
<1>1. DOMAIN r.reqs = 1 .. Len(r.reqs) /\ Len(r.reqs) \in Nat
  BY <1>0, AppendFacts
<1>2. AskedOf(r, t) \in SUBSET (1 .. Len(r.reqs))
  BY <1>1 DEF AskedOf
<1>3. IsFiniteSet(1 .. Len(r.reqs))
  BY <1>1, FS_Interval
<1>4. IsFiniteSet(AskedOf(r, t))
  BY <1>2, <1>3, FS_Subset
<1> QED BY <1>4, FS_CardinalityType

(* A step of RemoteStore that leaves the engine alone, and reads messages. *)
LEMMA SettledMoves ==
  ASSUME NEW c, NEW G, Settled(c, G), NEW d, NEW H, Kept(c, d), RemoteInv(d.remote, H),
         Watched(d.remote) = Watched(c.remote), Quiet(c.remote, d.remote)
  PROVE  Settled(d, H)
<1>1. OfflineKnown(d)
  BY DEF Settled, ClientInv, Kept, Quiet, OfflineKnown
<1> QED BY <1>1 DEF Settled, ClientInv, Kept

(* The client is online, with the same listens and the same stream.        *)
Reachable(c, d, G) ==
  /\ Settled(d, G) /\ Kept(c, d) /\ SameCore(c.remote, d.remote)
  /\ d.remote.online = "Online" /\ d.remote.stream = "Open"

(* Any message says that the backend is reachable.                         *)
LEMMA ReachedKeeps ==
  ASSUME NEW c, NEW G, Settled(c, G), c.remote.stream = "Open"
  PROVE  Reachable(c, SetOnline(c, "Online"), G)
<1> DEFINE d == SetOnline(c, "Online")
<1>1. Basic(c, G) /\ (c.remote.causes # {} => c.remote.stream = "Stopped")
  BY SettledBasic DEF OnlineSound
<1>2. /\ Kept(c, d) /\ RemoteInv(d.remote, G)
      /\ SameCore(c.remote, d.remote) /\ d.remote.online = "Online"
  BY <1>1, SetOnlineKeeps
<1> HIDE DEF d
<1>3. /\ Watched(d.remote) = Watched(c.remote) /\ Quiet(c.remote, d.remote)
      /\ d.remote.stream = "Open"
  BY <1>2 DEF Watched, SameCore, Quiet
<1>4. Settled(d, G)
  BY <1>2, <1>3, NetworkKeeps
<1> QED BY <1>2, <1>3, <1>4 DEF Reachable, d

(* The aggregator of r after the message m: the target of an answer waits  *)
(* for one less, and no target is left that an error was about.            *)
Hears(r, b, m) ==
  /\ AggregatorShape(b) /\ DOMAIN b.states \subseteq DOMAIN r.agg.states
  /\ \A t \in DOMAIN r.listens \cup DOMAIN b.states :
       /\ ~(m.kind = "ERROR" /\ m.t = t)
       /\ PendingOf(r, t) >= Told(m, {"ADD", "REMOVE"}, t) =>
            (IF t \in DOMAIN b.states THEN b.states[t].pending ELSE 0)
              = PendingOf(r, t) - Told(m, {"ADD", "REMOVE"}, t)

(* A message is read, and RemoteStore is as before but for its aggregator. *)
LEMMA HearsKeeps ==
  ASSUME NEW c, NEW G, NEW H, NEW m, NEW b, Settled(c, G), c.remote.stream = "Open",
         Consumes(c.remote, G, H, m), Hears(c.remote, b, m)
  PROVE  Settled([c EXCEPT !.remote.agg = b], H)
<1> DEFINE r == c.remote
           d == [c EXCEPT !.remote.agg = b]
           s == [r EXCEPT !.agg = b]
<1>1. /\ RemoteInv(r, G) /\ RemoteShape(r) /\ DOMAIN c = ClientFields
      /\ IsFunction(r) /\ DOMAIN r = RemoteFields
  BY SettledBasic DEF RemoteInv, RemoteCore
<1>2. Kept(c, d) /\ d.remote = s
  BY <1>1 DEF Kept, ClientFields
<1>3. /\ IsFunction(s) /\ DOMAIN s = RemoteFields /\ s.agg = b
      /\ s.listens = r.listens /\ s.stream = r.stream /\ s.idle = r.idle
      /\ s.reqs = r.reqs /\ s.nextId = r.nextId /\ s.online = r.online
      /\ s.timer = r.timer /\ s.failures = r.failures
      /\ s.orphan = r.orphan /\ s.strays = r.strays /\ s.causes = r.causes
  BY <1>1 DEF IsFunction, RemoteFields
<1> HIDE DEF d, s
<1>4. Reads(r, s)
  BY <1>1, <1>3 DEF Reads, Hears, RemoteShape
<1>5. \A t :
        /\ Cardinality(ResponsesTo(H.resps, {"ADD", "REMOVE"}, t))
             = Cardinality(ResponsesTo(G.resps, {"ADD", "REMOVE"}, t))
                 - Told(m, {"ADD", "REMOVE"}, t)
        /\ Cardinality(ResponsesTo(G.resps, {"ADD", "REMOVE"}, t)) \in Nat
        /\ ~(m.kind = "ERROR" /\ m.t = t) =>
             (ResponsesTo(H.resps, {"ERROR"}, t) = {}
                <=> ResponsesTo(G.resps, {"ERROR"}, t) = {})
  BY Zenon DEF Consumes
<1>6. CountsKept(r, s, G, H)
  <2>1. ASSUME NEW t \in DOMAIN s.listens \cup DOMAIN s.agg.states,
               ResponsesTo(H.resps, {"ERROR"}, t) = {}
        PROVE  /\ ResponsesTo(G.resps, {"ERROR"}, t) = {}
               /\ Counted(r, G, t) => Counted(s, H, t)
    <3> DEFINE told == Told(m, {"ADD", "REMOVE"}, t)
               was == Cardinality(ResponsesTo(G.resps, {"ADD", "REMOVE"}, t))
               is == Cardinality(ResponsesTo(H.resps, {"ADD", "REMOVE"}, t))
               asked == Cardinality(AskedOf(r, t))
    <3>1. t \in DOMAIN r.listens \cup DOMAIN b.states
      BY <1>3, <2>1
    <3>2. ~(m.kind = "ERROR" /\ m.t = t)
      BY <3>1 DEF Hears
    <3>3. ResponsesTo(G.resps, {"ERROR"}, t) = {}
      BY <1>5, <2>1, <3>2, Zenon
    <3>4. is = was - told /\ was \in Nat
      BY <1>5, Zenon
    <3>5. IsSequence(H.resps)
      BY DEF Consumes, ServerShape
    <3>6. is \in Nat
      BY <3>5, ResponsesFinite
    <3>7. asked \in Nat /\ AskedOf(s, t) = AskedOf(r, t)
      BY <1>1, <1>3, AskedFinite DEF AskedOf
    <3>8. told \in {0, 1}
      BY DEF Told
    <3>9. PendingOf(r, t) >= told => PendingOf(s, t) = PendingOf(r, t) - told
      BY <1>3, <3>1 DEF Hears, PendingOf
    <3>10. Counted(r, G, t) => PendingOf(r, t) = asked + was
      BY DEF Counted
    <3>11. PendingOf(s, t) = asked + is => Counted(s, H, t)
      BY <3>7 DEF Counted
    <3> HIDE DEF told, was, is, asked
    <3>12. Counted(r, G, t) => Counted(s, H, t)
      BY <3>4, <3>6, <3>7, <3>8, <3>9, <3>10, <3>11
    <3> QED BY <3>3, <3>12
  <2> QED BY <2>1 DEF CountsKept, Consumes
<1>7. RemoteInv(s, H)
  BY <1>1, <1>4, <1>6, ReadKeeps DEF Consumes
<1>8. Watched(s) = Watched(r) /\ Quiet(r, s)
  BY <1>3 DEF Watched, Quiet
<1> QED BY <1>2, <1>7, <1>8, SettledMoves DEF d

(* A message that answers no request changes no count.                     *)
LEMMA OtherHears ==
  ASSUME NEW r, NEW b, SamePending(r.agg, b), NEW m,
         m.kind \notin {"ADD", "REMOVE", "ERROR"}
  PROVE  Hears(r, b, m)
<1>1. \A t : Told(m, {"ADD", "REMOVE"}, t) = 0
  BY DEF Told
<1>2. \A t : t \in DOMAIN b.states => b.states[t].pending \in Int
  BY DEF SamePending, AggregatorShape
<1>3. ASSUME NEW t
      PROVE  (IF t \in DOMAIN b.states THEN b.states[t].pending ELSE 0)
               = PendingOf(r, t) - Told(m, {"ADD", "REMOVE"}, t)
  BY <1>1, <1>2 DEF SamePending, PendingOf
<1> QED BY <1>3 DEF Hears, SamePending

(* recordTargetResponse, for a request to watch.                           *)
LEMMA AddedHears ==
  ASSUME NEW r, AggregatorShape(r.agg), NEW m, m.kind = "ADD"
  PROVE  Hears(r, W!HandleAdded(r.agg, m.t, m.token), m)
<1> DEFINE a == r.agg
           t == m.t
           old == a.states[t]
           ts == W!Answered(old)
           settled == IF ts.pending = 0 THEN W!ClearPendingChanges(ts) ELSE ts
           us == W!UpdateResumeToken(settled, m.token)
           b == W!HandleAdded(a, t, m.token)
<1>1. \A u : Told(m, {"ADD", "REMOVE"}, u) = IF u = t THEN 1 ELSE 0
  BY DEF Told
<1>2. CASE t \notin DOMAIN a.states
  <2>1. b = a
    BY <1>2 DEF W!HandleAdded
  <2> HIDE DEF b, t
  <2>2. \A u \in DOMAIN a.states : a.states[u].pending \in Int
    BY DEF AggregatorShape
  <2>3. PendingOf(r, t) = 0
    BY <1>2 DEF PendingOf
  <2>4. ASSUME NEW u, PendingOf(r, u) >= Told(m, {"ADD", "REMOVE"}, u)
        PROVE  (IF u \in DOMAIN b.states THEN b.states[u].pending ELSE 0)
                 = PendingOf(r, u) - Told(m, {"ADD", "REMOVE"}, u)
    <3>1. u # t
      BY <1>1, <2>3, <2>4
    <3> QED BY <1>1, <2>1, <2>2, <3>1 DEF PendingOf
  <2>5. AggregatorShape(b) /\ DOMAIN b.states \subseteq DOMAIN a.states
    BY <2>1
  <2> QED BY <2>4, <2>5 DEF Hears, b, t
<1>3. CASE t \in DOMAIN a.states
  <2>1. SoundState(old)
    BY <1>3 DEF SoundState, AggregatorShape
  <2>2. SoundState(ts) /\ ts.pending = old.pending - 1
    BY <2>1 DEF SoundState, W!Answered, TargetStateFields
  <2> HIDE DEF ts
  <2>3. SoundState(settled) /\ settled.pending = old.pending - 1
    BY <2>2 DEF W!ClearPendingChanges, SoundState, TargetStateFields
  <2>4. b = W!WithState(a, t, us)
    BY <1>3 DEF W!HandleAdded, ts
  <2> HIDE DEF settled
  <2>5. SoundState(us) /\ us.pending = old.pending - 1
    BY <2>3, UpdateTokenFacts
  <2> HIDE DEF us, b
  <2>6. /\ AggregatorShape(b) /\ DOMAIN b.states = DOMAIN a.states
        /\ b.states[t] = us /\ \A u \in DOMAIN a.states : u # t => b.states[u] = a.states[u]
    <3>1. /\ AggregatorShape(W!WithState(a, t, us))
          /\ DOMAIN W!WithState(a, t, us).states = DOMAIN a.states \cup {t}
          /\ W!WithState(a, t, us).states[t] = us
          /\ \A u \in DOMAIN a.states : u # t => W!WithState(a, t, us).states[u] = a.states[u]
      BY <2>5, WithStateFacts
    <3> QED BY <1>3, <2>4, <3>1
  <2>7. \A u \in DOMAIN a.states : a.states[u].pending \in Int
    BY DEF AggregatorShape
  <2> HIDE DEF t
  <2>8. ASSUME NEW u
        PROVE  (IF u \in DOMAIN b.states THEN b.states[u].pending ELSE 0)
                 = PendingOf(r, u) - Told(m, {"ADD", "REMOVE"}, u)
    <3>1. CASE u = t
      BY <1>1, <1>3, <2>5, <2>6, <3>1 DEF PendingOf
    <3>2. CASE u # t
      BY <1>1, <2>6, <2>7, <3>2 DEF PendingOf
    <3> QED BY <3>1, <3>2
  <2> QED BY <2>6, <2>8 DEF Hears, b, t
<1> QED BY <1>2, <1>3

(* Removing a target from the aggregator.                                  *)
LEMMA RemoveTargetFacts ==
  ASSUME NEW a, AggregatorShape(a), NEW t
  PROVE  LET b == W!RemoveTarget(a, t)
         IN  /\ AggregatorShape(b) /\ DOMAIN b.states = DOMAIN a.states \ {t}
             /\ \A u \in DOMAIN b.states : b.states[u] = a.states[u]
<1> DEFINE b == W!RemoveTarget(a, t)
<1>1. DOMAIN b = AggregatorFields /\ b.states = [u \in DOMAIN a.states \ {t} |-> a.states[u]]
  BY DEF W!RemoveTarget, AggregatorShape, AggregatorFields
<1> HIDE DEF b
<1>2. AggregatorShape(b)
  BY <1>1 DEF AggregatorShape
<1> QED BY <1>1, <1>2 DEF b

(* recordTargetResponse, for a request not to watch: the last answer ends  *)
(* the target.                                                             *)
LEMMA RemovedHears ==
  ASSUME NEW r, AggregatorShape(r.agg), NEW m, m.kind = "REMOVE"
  PROVE  Hears(r, W!HandleRemoved(r.agg, m.t), m)
<1> DEFINE a == r.agg
           t == m.t
           old == a.states[t]
           ts == W!Answered(old)
           b == W!HandleRemoved(a, t)
<1>1. \A u : Told(m, {"ADD", "REMOVE"}, u) = IF u = t THEN 1 ELSE 0
  BY DEF Told
<1>2. \A u \in DOMAIN a.states : a.states[u].pending \in Int
  BY DEF AggregatorShape
<1>3. CASE t \notin DOMAIN a.states
  <2>1. b = a
    BY <1>3 DEF W!HandleRemoved
  <2> HIDE DEF b, t
  <2>3. PendingOf(r, t) = 0
    BY <1>3 DEF PendingOf
  <2>4. ASSUME NEW u, PendingOf(r, u) >= Told(m, {"ADD", "REMOVE"}, u)
        PROVE  (IF u \in DOMAIN b.states THEN b.states[u].pending ELSE 0)
                 = PendingOf(r, u) - Told(m, {"ADD", "REMOVE"}, u)
    <3>1. u # t
      BY <1>1, <2>3, <2>4
    <3> QED BY <1>1, <1>2, <2>1, <3>1 DEF PendingOf
  <2>5. AggregatorShape(b) /\ DOMAIN b.states \subseteq DOMAIN a.states
    BY <2>1
  <2> QED BY <2>4, <2>5 DEF Hears, b, t
<1>4. CASE t \in DOMAIN a.states
  <2>1. SoundState(old)
    BY <1>4 DEF SoundState, AggregatorShape
  <2>2. SoundState(ts) /\ ts.pending = old.pending - 1
    BY <2>1 DEF SoundState, W!Answered, TargetStateFields
  <2>3. b = IF ts.pending = 0 THEN W!RemoveTarget(a, t) ELSE W!WithState(a, t, ts)
    BY <1>4 DEF W!HandleRemoved
  <2> HIDE DEF ts, b
  <2>4. /\ AggregatorShape(b) /\ DOMAIN b.states \subseteq DOMAIN a.states
        /\ (IF t \in DOMAIN b.states THEN b.states[t].pending ELSE 0) = ts.pending
        /\ \A u : u # t => /\ u \in DOMAIN b.states <=> u \in DOMAIN a.states
                           /\ u \in DOMAIN a.states => b.states[u] = a.states[u]
    <3>1. CASE ts.pending = 0
      <4>1. /\ AggregatorShape(b) /\ DOMAIN b.states = DOMAIN a.states \ {t}
            /\ \A u \in DOMAIN b.states : b.states[u] = a.states[u]
        BY <2>3, <3>1, RemoveTargetFacts
      <4> QED BY <3>1, <4>1
    <3>2. CASE ts.pending # 0
      <4>1. /\ AggregatorShape(b) /\ DOMAIN b.states = DOMAIN a.states \cup {t}
            /\ b.states[t] = ts
            /\ \A u \in DOMAIN a.states : u # t => b.states[u] = a.states[u]
        BY <2>2, <2>3, <3>2, WithStateFacts
      <4> QED BY <1>4, <4>1
    <3> QED BY <3>1, <3>2
  <2> HIDE DEF t
  <2>5. ASSUME NEW u
        PROVE  (IF u \in DOMAIN b.states THEN b.states[u].pending ELSE 0)
                 = PendingOf(r, u) - Told(m, {"ADD", "REMOVE"}, u)
    <3>1. CASE u = t
      BY <1>1, <1>4, <2>2, <2>4, <3>1 DEF PendingOf
    <3>2. CASE u # t
      BY <1>1, <1>2, <2>4, <3>2 DEF PendingOf
    <3> QED BY <3>1, <3>2
  <2> QED BY <2>4, <2>5 DEF Hears, b, t
<1> QED BY <1>3, <1>4

(* The error of a target that is not listened to any more.                 *)
LEMMA ErrorHears ==
  ASSUME NEW r, AggregatorShape(r.agg), NEW m, m.kind = "ERROR", m.t \notin DOMAIN r.listens
  PROVE  Hears(r, W!RemoveTarget(r.agg, m.t), m)
<1> DEFINE b == W!RemoveTarget(r.agg, m.t)
<1>1. /\ AggregatorShape(b) /\ DOMAIN b.states = DOMAIN r.agg.states \ {m.t}
      /\ \A u \in DOMAIN b.states : b.states[u] = r.agg.states[u]
  BY RemoveTargetFacts
<1> HIDE DEF b
<1>2. \A u : Told(m, {"ADD", "REMOVE"}, u) = 0
  BY DEF Told
<1>3. \A u \in DOMAIN r.agg.states : r.agg.states[u].pending \in Int
  BY DEF AggregatorShape
<1>4. ASSUME NEW u \in DOMAIN r.listens \cup DOMAIN b.states
      PROVE  /\ u # m.t
             /\ (IF u \in DOMAIN b.states THEN b.states[u].pending ELSE 0)
                  = PendingOf(r, u) - Told(m, {"ADD", "REMOVE"}, u)
  BY <1>1, <1>2, <1>3, <1>4 DEF PendingOf
<1> QED BY <1>1, <1>4 DEF Hears, b

(* A message that only the aggregator keeps.                               *)
LEMMA AggregateKeeps ==
  ASSUME NEW c, NEW G, NEW H, NEW m, NEW b, Settled(c, G), c.remote.stream = "Open",
         Consumes(c.remote, G, H, m), Hears(c.remote, b, m)
  PROVE  Settled([SetOnline(c, "Online") EXCEPT !.remote.agg = b], H)
<1> DEFINE d == SetOnline(c, "Online")
<1>1. Reachable(c, d, G)
  BY ReachedKeeps
<1> HIDE DEF d
<1>2. /\ d.remote.listens = c.remote.listens /\ d.remote.agg = c.remote.agg
      /\ d.remote.nextId = c.remote.nextId
  BY <1>1 DEF Reachable, SameCore
<1>3. Consumes(d.remote, G, H, m)
  <2>1. ServerShape(d.remote, H)
    BY <1>2 DEF Consumes, ServerShape, Allocated
  <2> QED BY <2>1 DEF Consumes
<1>4. Hears(d.remote, b, m)
  <2>1. \A t : PendingOf(d.remote, t) = PendingOf(c.remote, t)
    BY <1>2 DEF PendingOf
  <2> QED BY <1>2, <2>1 DEF Hears
<1> QED BY <1>1, <1>3, <1>4, HearsKeeps DEF Reachable, d

-----------------------------------------------------------------------------
(* Global snapshots.                                                       *)

(* The tokens in memory move; the targets are the same.                    *)
LEMMA MoveTokensFacts ==
  ASSUME NEW c, DOMAIN c = ClientFields, RemoteShape(c.remote), NEW event
  PROVE  LET d == MoveTokens(c, event)
         IN  /\ Kept(c, d) /\ IsFunction(d.remote) /\ DOMAIN d.remote = RemoteFields
             /\ d.remote.agg = c.remote.agg /\ d.remote.stream = c.remote.stream
             /\ d.remote.idle = c.remote.idle /\ d.remote.reqs = c.remote.reqs
             /\ d.remote.nextId = c.remote.nextId /\ d.remote.online = c.remote.online
             /\ d.remote.timer = c.remote.timer /\ d.remote.failures = c.remote.failures
             /\ d.remote.orphan = c.remote.orphan /\ d.remote.strays = c.remote.strays
             /\ d.remote.causes = c.remote.causes
             /\ IsFunction(d.remote.listens)
             /\ DOMAIN d.remote.listens = DOMAIN c.remote.listens
             /\ \A t \in DOMAIN c.remote.listens :
                  /\ DOMAIN d.remote.listens[t] = {"sdk", "token", "ver"}
                  /\ d.remote.listens[t].sdk = c.remote.listens[t].sdk
<1> DEFINE r == c.remote
           To(t) == IF t \in event.mismatches THEN [r.listens[t] EXCEPT !.token = 0]
                    ELSE IF t \in DOMAIN event.changes /\ event.changes[t].token > 0
                      THEN [r.listens[t] EXCEPT !.token = event.changes[t].token,
                                                !.ver = event.version]
                    ELSE r.listens[t]
           moved == [t \in DOMAIN r.listens |-> To(t)]
           s == [r EXCEPT !.listens = moved]
           d == MoveTokens(c, event)
<1>1. IsFunction(r) /\ DOMAIN r = RemoteFields
  BY DEF RemoteShape
<1>2. ASSUME NEW t \in DOMAIN r.listens
      PROVE  DOMAIN moved[t] = {"sdk", "token", "ver"} /\ moved[t].sdk = r.listens[t].sdk
  <2>1. DOMAIN r.listens[t] = {"sdk", "token", "ver"}
    BY <1>2 DEF RemoteShape
  <2>2. DOMAIN To(t) = {"sdk", "token", "ver"} /\ To(t).sdk = r.listens[t].sdk
    BY <2>1
  <2> QED BY <2>2
<1>3. DOMAIN moved = DOMAIN r.listens /\ IsFunction(moved)
  BY DEF IsFunction
<1>4. d = [c EXCEPT !.remote.listens = moved]
  BY DEF MoveTokens
<1> HIDE DEF moved, d, To
<1>5. Kept(c, d) /\ d.remote = s
  BY <1>4 DEF Kept, ClientFields
<1>6. /\ IsFunction(s) /\ DOMAIN s = RemoteFields /\ s.listens = moved
      /\ s.agg = r.agg /\ s.stream = r.stream /\ s.idle = r.idle /\ s.reqs = r.reqs
      /\ s.nextId = r.nextId /\ s.online = r.online /\ s.timer = r.timer
      /\ s.failures = r.failures
      /\ s.orphan = r.orphan /\ s.strays = r.strays /\ s.causes = r.causes
  BY <1>1 DEF IsFunction, RemoteFields
<1> HIDE DEF s
<1> QED BY <1>2, <1>3, <1>5, <1>6 DEF d

(* Only targets that are listened to are in the event, each as it was.     *)
LEMMA SdkEventShape ==
  ASSUME NEW c, RemoteShape(c.remote), NEW event, "changes" \in DOMAIN event,
         \A t \in DOMAIN event.changes : event.changes[t].current \in BOOLEAN
  PROVE  EventShape(ToSdkRemoteEvent(c, event))
<1> DEFINE Sdk(t) == c.remote.listens[t].sdk
           M == {Sdk(t) : t \in DOMAIN event.changes \cap DOMAIN c.remote.listens}
           N == {Sdk(t) : t \in event.mismatches \cap DOMAIN c.remote.listens}
           changes == [sdk \in M |-> event.changes[RemoteTargetId(c, sdk)]]
           e == ToSdkRemoteEvent(c, event)
<1>1. e = [event EXCEPT !.changes = changes, !.mismatches = N]
  BY DEF ToSdkRemoteEvent
<1>2. ASSUME NEW x \in M
      PROVE  event.changes[RemoteTargetId(c, x)].current \in BOOLEAN
  <2>1. PICK t \in DOMAIN event.changes \cap DOMAIN c.remote.listens :
               x = c.remote.listens[t].sdk
    BY <1>2
  <2>2. RemoteTargetId(c, x) \in DOMAIN c.remote.listens
          /\ c.remote.listens[RemoteTargetId(c, x)].sdk = x
    BY <2>1 DEF RemoteTargetId
  <2>3. RemoteTargetId(c, x) = t
    BY <2>1, <2>2 DEF RemoteShape
  <2> QED BY <2>1, <2>3
<1>3. DOMAIN changes = M /\ \A x \in M : changes[x].current \in BOOLEAN
  BY <1>2
<1> HIDE DEF changes, M, N, e
<1>4. e.changes = changes
  BY <1>1
<1> QED BY <1>3, <1>4 DEF EventShape, e

(* raiseWatchSnapshot, up to the event that it then applies.               *)
Raised(c, r, G) ==
  /\ Settled(r.client, G) /\ r.client.remote.online = c.remote.online
  /\ EventShape(r.event)

(* The event is made, tokens move and mismatches are watched again.        *)
LEMMA RaiseKeeps ==
  ASSUME NEW c, NEW G, Settled(c, G), c.remote.stream = "Open", NEW version
  PROVE  Raised(c, RaiseWatchSnapshot(c, version), G)
<1> DEFINE md == MetadataProvider(c)
           a == c.remote.agg
           x == W!CreateRemoteEvent(a, md, version)
           b == [c EXCEPT !.remote.agg = x.left]
           d == MoveTokens(b, x.event)
           e == RewatchMismatches(d, x.event)
           s == [c.remote EXCEPT !.agg = x.left]
<1>1. /\ RemoteInv(c.remote, G) /\ RemoteShape(c.remote) /\ DOMAIN c = ClientFields
      /\ IsFunction(c.remote) /\ DOMAIN c.remote = RemoteFields /\ ServerShape(c.remote, G)
  BY SettledBasic DEF RemoteInv, RemoteCore
<1>2. AggregatorShape(a) /\ DOMAIN a.states \subseteq Allocated(c.remote)
  BY <1>1 DEF RemoteShape
<1>3. /\ SamePending(a, x.left) /\ DOMAIN x.event.changes \subseteq DOMAIN md
      /\ \A t \in DOMAIN x.event.changes : x.event.changes[t].current \in BOOLEAN
  BY <1>2, CreateEventKeeps
<1>4. "changes" \in DOMAIN x.event
  BY DEF W!CreateRemoteEvent
<1>5. RaiseWatchSnapshot(c, version) = [client |-> e, event |-> ToSdkRemoteEvent(d, x.event)]
  BY DEF RaiseWatchSnapshot
<1> HIDE DEF x, e, d, md
<1>6. Kept(c, b) /\ b.remote = s
  BY <1>1 DEF Kept, ClientFields
<1>7. /\ IsFunction(s) /\ DOMAIN s = RemoteFields /\ s.agg = x.left
      /\ s.listens = c.remote.listens /\ s.stream = c.remote.stream
      /\ s.idle = c.remote.idle /\ s.reqs = c.remote.reqs /\ s.nextId = c.remote.nextId
      /\ s.online = c.remote.online /\ s.timer = c.remote.timer
      /\ s.failures = c.remote.failures
      /\ s.orphan = c.remote.orphan /\ s.strays = c.remote.strays /\ s.causes = c.remote.causes
  BY <1>1 DEF IsFunction, RemoteFields
<1> HIDE DEF b, s
<1>8. Reads(c.remote, s) /\ CountsKept(c.remote, s, G, G)
  <2>1. Reads(c.remote, s)
    BY <1>1, <1>3, <1>7 DEF Reads, SamePending, RemoteShape
  <2>2. \A t : PendingOf(s, t) = PendingOf(c.remote, t)
    BY <1>3, <1>7 DEF PendingOf, SamePending
  <2>3. \A t : Counted(c.remote, G, t) => Counted(s, G, t)
    BY <1>7, <2>2 DEF Counted, AskedOf
  <2> QED BY <1>1, <2>1, <2>3 DEF CountsKept
<1>9. RemoteInv(s, G) /\ RemoteShape(s)
  <2>1. RemoteInv(s, G)
    BY <1>1, <1>8, ReadKeeps
  <2> QED BY <2>1 DEF RemoteInv, RemoteCore
<1>10. /\ Kept(b, d) /\ IsFunction(d.remote) /\ DOMAIN d.remote = RemoteFields
       /\ d.remote.agg = s.agg /\ d.remote.stream = s.stream
       /\ d.remote.idle = s.idle /\ d.remote.reqs = s.reqs
       /\ d.remote.nextId = s.nextId /\ d.remote.online = s.online
       /\ d.remote.timer = s.timer /\ d.remote.failures = s.failures
       /\ d.remote.orphan = s.orphan /\ d.remote.strays = s.strays
       /\ d.remote.causes = s.causes
       /\ IsFunction(d.remote.listens)
       /\ DOMAIN d.remote.listens = DOMAIN s.listens
       /\ \A t \in DOMAIN s.listens :
            /\ DOMAIN d.remote.listens[t] = {"sdk", "token", "ver"}
            /\ d.remote.listens[t].sdk = s.listens[t].sdk
  <2>1. DOMAIN b = ClientFields /\ RemoteShape(b.remote)
    BY <1>6, <1>9 DEF Kept
  <2> QED BY <1>6, <2>1, MoveTokensFacts DEF d
<1>11. RemoteInv(d.remote, G) /\ RemoteShape(d.remote)
  <2>1. Reads(s, d.remote)
    BY <1>10 DEF Reads
  <2>2. \A t : PendingOf(d.remote, t) = PendingOf(s, t) /\ AskedOf(d.remote, t) = AskedOf(s, t)
    BY <1>10 DEF PendingOf, AskedOf
  <2>3. ServerShape(s, G)
    BY <1>9 DEF RemoteInv, RemoteCore
  <2>4. CountsKept(s, d.remote, G, G)
    BY <2>2, <2>3 DEF CountsKept, Counted
  <2>5. RemoteInv(d.remote, G)
    BY <1>9, <2>1, <2>3, <2>4, ReadKeeps
  <2> QED BY <2>5 DEF RemoteInv, RemoteCore
<1>12. DOMAIN d = ClientFields /\ d.remote.stream = "Open"
  BY <1>7, <1>10 DEF Kept
<1>13. /\ Kept(d, e) /\ RemoteInv(e.remote, G) /\ e.remote.stream = "Open"
       /\ e.remote.listens = d.remote.listens /\ e.remote.nextId = d.remote.nextId
       /\ e.remote.online = d.remote.online
  BY <1>11, <1>12, RewatchAllKeeps DEF e
<1>14. /\ Kept(c, e) /\ Watched(e.remote) = Watched(c.remote)
       /\ e.remote.online = c.remote.online
  <2>1. Watched(d.remote) = Watched(c.remote)
    BY <1>7, <1>10 DEF Watched
  <2> QED BY <1>6, <1>7, <1>10, <1>13, <2>1 DEF Kept, Watched
<1>15. Settled(e, G)
  BY <1>13, <1>14, NetworkKeeps DEF Quiet
<1>16. EventShape(ToSdkRemoteEvent(d, x.event))
  BY <1>3, <1>4, <1>11, SdkEventShape
<1> QED BY <1>5, <1>14, <1>15, <1>16 DEF Raised

(* A snapshot is raised and applied.                                       *)
LEMMA SnapshotKeeps ==
  ASSUME NEW c, NEW G, Settled(c, G), c.remote.stream = "Open",
         c.remote.online = "Online", NEW version
  PROVE  LET r == RaiseWatchSnapshot(c, version)
         IN  Settled(r.client, G) /\ Settled(ApplyRemoteEvent(r.client, r.event), G)
<1> DEFINE r == RaiseWatchSnapshot(c, version)
           b == r.client
           event == r.event
           d == ApplyRemoteEvent(b, event)
<1>1. Raised(c, r, G)
  BY RaiseKeeps
<1> HIDE DEF r
<1>2. Settled(b, G) /\ b.remote.online # "Offline" /\ EventShape(event)
  BY <1>1 DEF Raised
<1> HIDE DEF b, event
<1>3. Applying(b, d, G, Keys \ Deleted(b, event))
  BY <1>2, ApplyEventKeeps
<1> HIDE DEF d
<1>4. Settled(d, G)
  BY <1>3 DEF Applying
<1> QED BY <1>2, <1>4 DEF d, b, event, r

-----------------------------------------------------------------------------
(* Targets that the backend rejects.                                       *)

(* The target t is the one that no table accounts for, or it is gone.      *)
Leftover(d, X, t) ==
  \/ /\ t \in DOMAIN d.remote.listens /\ X = {d.remote.listens[t].sdk}
     /\ d.remote.listens[t].sdk \notin DOMAIN d.engine.active \cup DOMAIN d.engine.views
  \/ t \notin DOMAIN d.remote.listens /\ X = {}

(* The end of handleTargetError: RemoteStore forgets the target.           *)
LEMMA DropKeeps ==
  ASSUME NEW c, NEW G, NEW H, NEW m, NEW t, NEW X, Working(c, G, X, {}),
         RefsMatch(c.engine), Leftover(c, X, t), m.kind = "ERROR", m.t = t,
         Consumes(c.remote, G, H, m)
  PROVE  Settled(DropRejectedTarget(c, t), H)
<1> DEFINE r == c.remote
           l == Without(r.listens, t)
           b == W!RemoveTarget(r.agg, t)
           d == DropRejectedTarget(c, t)
           s == [r EXCEPT !.listens = l, !.agg = b]
<1>1. /\ RemoteInv(r, G) /\ RemoteShape(r) /\ DOMAIN c = ClientFields
      /\ IsFunction(r) /\ DOMAIN r = RemoteFields
  BY WorkingFacts DEF RemoteInv, RemoteCore, RemoteShape
<1>2. IsFunction(l) /\ DOMAIN l = DOMAIN r.listens \ {t}
      /\ \A u \in DOMAIN r.listens : u # t => l[u] = r.listens[u]
  BY WithoutFacts
<1>3. AggregatorShape(r.agg) =>
        /\ AggregatorShape(b) /\ DOMAIN b.states = DOMAIN r.agg.states \ {t}
        /\ \A u \in DOMAIN b.states : b.states[u] = r.agg.states[u]
  BY RemoveTargetFacts
<1>4. d = [c EXCEPT !.remote.listens = l, !.remote.agg = b]
  BY DEF DropRejectedTarget
<1> HIDE DEF l, b, d
<1>5. Kept(c, d) /\ d.remote = s
  BY <1>1, <1>4 DEF Kept, ClientFields
<1>6. /\ IsFunction(s) /\ DOMAIN s = RemoteFields /\ s.agg = b
      /\ s.listens = l /\ s.stream = r.stream /\ s.idle = r.idle
      /\ s.reqs = r.reqs /\ s.nextId = r.nextId /\ s.online = r.online
      /\ s.timer = r.timer /\ s.failures = r.failures
      /\ s.orphan = r.orphan /\ s.strays = r.strays /\ s.causes = r.causes
  BY <1>1 DEF IsFunction, RemoteFields
<1> HIDE DEF s
<1>7. Reads(r, s)
  <2>1. DOMAIN s.listens \subseteq DOMAIN r.listens /\ IsFunction(s.listens)
    BY <1>2, <1>6
  <2>2. ASSUME NEW u \in DOMAIN s.listens
        PROVE  DOMAIN s.listens[u] = {"sdk", "token", "ver"} /\ s.listens[u].sdk = r.listens[u].sdk
    <3>1. u \in DOMAIN r.listens /\ s.listens[u] = r.listens[u]
      BY <1>2, <1>6
    <3>2. DOMAIN r.listens[u] = {"sdk", "token", "ver"}
      BY <1>1, <3>1 DEF RemoteShape
    <3> QED BY <3>1, <3>2
  <2>3. AggregatorShape(r.agg) =>
          AggregatorShape(s.agg) /\ DOMAIN s.agg.states \subseteq DOMAIN r.agg.states
    BY <1>3, <1>6
  <2> QED BY <1>6, <2>1, <2>2, <2>3 DEF Reads
<1>8. \A u :
        /\ Cardinality(ResponsesTo(H.resps, {"ADD", "REMOVE"}, u))
             = Cardinality(ResponsesTo(G.resps, {"ADD", "REMOVE"}, u))
                 - Told(m, {"ADD", "REMOVE"}, u)
        /\ Cardinality(ResponsesTo(G.resps, {"ADD", "REMOVE"}, u)) \in Nat
        /\ ~(m.kind = "ERROR" /\ m.t = u) =>
             (ResponsesTo(H.resps, {"ERROR"}, u) = {}
                <=> ResponsesTo(G.resps, {"ERROR"}, u) = {})
  BY Zenon DEF Consumes
<1>9. ASSUME r.stream = "Open" PROVE CountsKept(r, s, G, H)
  <2>1. AggregatorShape(r.agg)
    BY <1>1, <1>9 DEF RemoteShape
  <2>2. ASSUME NEW u \in DOMAIN s.listens \cup DOMAIN s.agg.states,
               ResponsesTo(H.resps, {"ERROR"}, u) = {}
        PROVE  /\ ResponsesTo(G.resps, {"ERROR"}, u) = {}
               /\ Counted(r, G, u) => Counted(s, H, u)
    <3>1. u # t
      BY <1>2, <1>3, <1>6, <2>1, <2>2
    <3>2. ResponsesTo(G.resps, {"ERROR"}, u) = {}
      BY <1>8, <2>2, <3>1, Zenon
    <3>3. Told(m, {"ADD", "REMOVE"}, u) = 0
      BY <3>1 DEF Told
    <3> DEFINE was == Cardinality(ResponsesTo(G.resps, {"ADD", "REMOVE"}, u))
               is == Cardinality(ResponsesTo(H.resps, {"ADD", "REMOVE"}, u))
    <3>4. is = was - Told(m, {"ADD", "REMOVE"}, u) /\ was \in Nat
      BY <1>8, Zenon
    <3>5. PendingOf(s, u) = PendingOf(r, u)
      BY <1>3, <1>6, <2>1, <3>1 DEF PendingOf
    <3>6. AskedOf(s, u) = AskedOf(r, u)
      BY <1>6 DEF AskedOf
    <3>7. is = was
      <4> HIDE DEF is, was
      <4> QED BY <3>3, <3>4
    <3>8. Counted(r, G, u) => Counted(s, H, u)
      BY <3>5, <3>6, <3>7 DEF Counted
    <3> QED BY <3>2, <3>8
  <2> QED BY <2>2 DEF CountsKept, Consumes
<1>10. RemoteInv(s, H)
  BY <1>1, <1>7, <1>9, ReadKeeps DEF Consumes
<1>11. Watched(s) = DOMAIN c.engine.active \cup DOMAIN c.engine.views
  <2>1. Watched(r) = DOMAIN c.engine.active \cup DOMAIN c.engine.views \cup X
    BY DEF Working, Unpumped
  <2>2. CASE t \notin DOMAIN r.listens
    <3>1. X = {} /\ DOMAIN l = DOMAIN r.listens /\ \A u \in DOMAIN l : l[u] = r.listens[u]
      BY <1>2, <2>2 DEF Leftover
    <3>2. Watched(s) = Watched(r)
      BY <1>6, <3>1 DEF Watched
    <3> QED BY <2>1, <3>1, <3>2
  <2>3. CASE t \in DOMAIN r.listens
    <3> DEFINE sdk == r.listens[t].sdk
    <3>1. X = {sdk} /\ sdk \notin DOMAIN c.engine.active \cup DOMAIN c.engine.views
      BY <2>3 DEF Leftover
    <3>2. \A u \in DOMAIN r.listens : u # t => r.listens[u].sdk # sdk
      BY <1>1, <2>3 DEF RemoteShape
    <3>3. Watched(s) = Watched(r) \ {sdk}
      BY <1>2, <1>6, <2>3, <3>2 DEF Watched
    <3> HIDE DEF sdk
    <3> QED BY <2>1, <3>1, <3>3
  <2> QED BY <2>2, <2>3
<1>12. ClientInv(d, H, {})
  <2>1. OfflineKnown(d)
    BY <1>5, <1>6 DEF Working, Unpumped, ClientInv, Kept, OfflineKnown
  <2> QED BY <1>5, <1>10, <2>1 DEF Working, Unpumped, ClientInv, Kept
<1> QED BY <1>5, <1>11, <1>12 DEF Settled, Working, Kept, d

(* localStoreReleaseTarget touches the store only.                         *)
LEMMA ReleaseKeeps ==
  ASSUME NEW c, NEW G, Settled(c, G), NEW q, NEW persisted
  PROVE  LET d == ReleaseTarget(c, q, persisted)
         IN  Settled(d, G) /\ d.remote = c.remote /\ d.engine = c.engine
<1> DEFINE d == ReleaseTarget(c, q, persisted)
           st == [c.store EXCEPT !.targets[q] = IF persisted THEN c.store.mem[q] ELSE @,
                                 !.mem = Without(@, q)]
<1>1. DOMAIN c = ClientFields /\ DOMAIN c.store = StoreFields
  BY DEF Settled, ClientInv
<1>2. d = [c EXCEPT !.store = st]
  <2>1. c.store.mem = [c.store EXCEPT !.targets[q] = IF persisted THEN c.store.mem[q] ELSE @].mem
    BY <1>1 DEF StoreFields
  <2> QED BY <1>1, <2>1 DEF ReleaseTarget, ClientFields
<1>3. DOMAIN st = StoreFields
  BY <1>1
<1> HIDE DEF st, d
<1>4. DOMAIN d = ClientFields /\ d.remote = c.remote /\ d.engine = c.engine /\ d.store = st
  BY <1>1, <1>2 DEF ClientFields
<1>5. OfflineKnown(d)
  BY <1>4 DEF Settled, ClientInv, OfflineKnown
<1>6. Settled(d, G)
  BY <1>3, <1>4, <1>5 DEF Settled, ClientInv
<1> QED BY <1>4, <1>6 DEF d

(* syncEngineRejectListen for a query.                                     *)
LEMMA RejectQueryKeeps ==
  ASSUME NEW c, NEW G, Settled(c, G), NEW t \in DOMAIN c.remote.listens,
         NEW q, q = c.remote.listens[t].sdk, q \notin Keys, NEW persisted,
         G.resps # << >>, Head(G.resps).kind = "ERROR", Head(G.resps).t = t
  PROVE  Settled(DropRejectedTarget(RejectQuery(c, q, persisted), t),
                 [G EXCEPT !.resps = Tail(@)])
<1> DEFINE b == ReleaseTarget(c, q, persisted)
           d == RemoveAndCleanupTarget(b, q)
           H == [G EXCEPT !.resps = Tail(@)]
           m == Head(G.resps)
<1>1. Settled(b, G) /\ b.remote = c.remote /\ b.engine = c.engine
  BY ReleaseKeeps
<1> HIDE DEF b
<1>2. q \in Watched(b.remote) /\ EngineShape(b.engine)
  BY <1>1 DEF Watched, Settled, ClientInv
<1>3. q \in DOMAIN b.engine.views
  BY <1>1, <1>2 DEF Settled, EngineShape
<1>4. q \in Queries /\ {q} \in SUBSET Queries
  BY <1>2, <1>3 DEF EngineShape
<1>5. Watched(b.remote) = DOMAIN b.engine.active \cup (DOMAIN b.engine.views \ {q}) \cup {q}
  BY <1>1, <1>3 DEF Settled
<1>6. ClientInv(b, G, {}) /\ Pumped(b.engine) /\ RefsMatch(b.engine)
  BY <1>1 DEF Settled
<1>7. Cleaned(b, d, G, {q}, q)
  BY <1>4, <1>5, <1>6, CleanupKeeps
<1> HIDE DEF d
<1>8. Working(d, G, {q}, {}) /\ RefsMatch(d.engine)
  BY <1>7 DEF Cleaned
<1>9. t \in DOMAIN d.remote.listens /\ d.remote.listens[t].sdk = q
  BY <1>1, <1>7 DEF Cleaned, Evolves
<1>10. q \notin DOMAIN d.engine.active \cup DOMAIN d.engine.views
  <2>1. DOMAIN d.engine.views = DOMAIN b.engine.views \ {q}
    <3>1. d.engine.views = Without(b.engine.views, q)
      BY <1>7 DEF Cleaned
    <3>2. DOMAIN Without(b.engine.views, q) = DOMAIN b.engine.views \ {q}
      BY WithoutFacts
    <3> QED BY <3>1, <3>2
  <2>2. DOMAIN d.engine.active \subseteq Keys
    BY <1>8, WorkingFacts DEF EngineShape
  <2> QED BY <2>1, <2>2
<1>11. Leftover(d, {q}, t)
  BY <1>9, <1>10 DEF Leftover
<1>12. Consumes(d.remote, G, H, m)
  <2>1. ServerShape(d.remote, G)
    BY <1>8, WorkingFacts DEF RemoteInv, RemoteCore
  <2> QED BY <2>1, ConsumeFacts
<1> HIDE DEF H, m
<1>13. m.kind = "ERROR" /\ m.t = t
  BY DEF m
<1>14. Settled(DropRejectedTarget(d, t), H)
  BY <1>8, <1>11, <1>12, <1>13, DropKeeps
<1> QED BY <1>14 DEF RejectQuery, b, d, H

(* The event of a rejected limbo target deletes its document.              *)
LEMMA RejectedDeleted ==
  ASSUME NEW c, NEW key \in Keys
  PROVE  EventShape(LimboRejected(key)) /\ key \in Deleted(c, LimboRejected(key))
<1> DEFINE event == LimboRejected(key)
           docs == [k \in Keys |-> IF k = key THEN W!NoDocument(0) ELSE NoUpdate]
<1>1. event.docs = docs /\ event.changes = << >>
  BY DEF LimboRejected
<1>2. docs[key] = W!NoDocument(0) /\ W!NoDocument(0) # NoUpdate /\ W!NoDocument(0).data = Absent
  BY NullIsNoDocument DEF W!NoDocument
<1> HIDE DEF docs, event
<1>3. key \in AcceptedUpdates(c.store, event.docs)
  BY <1>1, <1>2 DEF AcceptedUpdates
<1>4. key \in Deleted(c, event)
  BY <1>1, <1>2, <1>3 DEF Deleted
<1>5. EventShape(event)
  BY <1>1, EmptyFunction DEF EventShape
<1> QED BY <1>4, <1>5 DEF event

(* The resolution of a document, without a place but still listened to.    *)
Displaced(c, d, G, key) ==
  /\ Working(d, G, {key} \cap DOMAIN c.engine.active, {}) /\ RefsMatch(d.engine)
  /\ Evolves(c.remote, d.remote, {}) /\ key \notin DOMAIN d.engine.active

(* What syncEngineRejectListen does after the event: the place is given    *)
(* away.                                                                   *)
LEMMA DisplaceKeeps ==
  ASSUME NEW c, NEW G, Settled(c, G), NEW key \in Keys, key \notin Range(c.engine.enqueued)
  PROVE  Displaced(c, Pump([c EXCEPT !.engine.active = Without(@, key)]), G, key)
<1> DEFINE e == c.engine
           act == Without(e.active, key)
           f == [e EXCEPT !.active = act]
           b == [c EXCEPT !.engine.active = Without(@, key)]
           X == {key} \cap DOMAIN e.active
           d == Pump(b)
<1>0. /\ RemoteInv(c.remote, G) /\ DOMAIN c = ClientFields /\ DOMAIN c.store = StoreFields
      /\ EngineShape(e) /\ IsFunction(e) /\ DOMAIN e = EngineFields
      /\ c.remote.nextId \in Nat
  BY DEF Settled, ClientInv, EngineShape, RemoteInv, RemoteCore, RemoteShape
<1>1. DOMAIN act = DOMAIN e.active \ {key}
  BY WithoutFacts
<1> HIDE DEF act
<1>2. b = [c EXCEPT !.engine.active = act]
  BY DEF act
<1> HIDE DEF b
<1>3. DOMAIN b = ClientFields /\ b.engine = f /\ b.remote = c.remote /\ b.store = c.store
  BY <1>0, <1>2 DEF ClientFields
<1>4. /\ IsFunction(f) /\ DOMAIN f = EngineFields /\ f.refs = e.refs
      /\ f.views = e.views /\ f.active = act /\ f.enqueued = e.enqueued
  BY <1>0 DEF IsFunction, EngineFields
<1> HIDE DEF f
<1>5. EngineShape(f)
  BY <1>0, <1>1, <1>4 DEF EngineShape
<1>6. Limbo(f, {}) /\ RefsMatch(f)
  <2>1. Limbo(e, {}) /\ RefsMatch(e)
    BY DEF Settled, ClientInv
  <2>2. IsFiniteSet(DOMAIN e.active)
    BY <1>0, FinitelyMany, FS_Subset DEF EngineShape
  <2>3. IsFiniteSet(DOMAIN f.active) /\ Cardinality(DOMAIN f.active) <= Cardinality(DOMAIN e.active)
    BY <1>1, <1>4, <2>2, FS_Subset
  <2>4. Cardinality(DOMAIN e.active) \in Nat /\ Cardinality(DOMAIN f.active) \in Nat
    BY <2>2, <2>3, FS_CardinalityType
  <2>5. Cardinality(DOMAIN f.active) <= MaxLimbo
    BY <2>1, <2>3, <2>4, LimboLimit DEF Limbo
  <2>6. \A k \in DOMAIN f.active \cup Range(f.enqueued) : Referenced(f, k)
    BY <1>1, <1>4, <2>1 DEF Limbo, Referenced
  <2>7. DOMAIN f.active \cap Range(f.enqueued) = {} /\ IsInjective(f.enqueued)
    BY <1>1, <1>4, <2>1 DEF Limbo
  <2>8. RefsMatch(f)
    BY <1>4, <2>1 DEF RefsMatch
  <2> QED BY <2>5, <2>6, <2>7, <2>8 DEF Limbo
<1>7. Unpumped(b, G, X, {})
  <2>1. OfflineKnown(b)
    BY <1>3, <1>4 DEF Settled, ClientInv, OfflineKnown
  <2>2. Watched(b.remote) = DOMAIN f.active \cup DOMAIN f.views \cup X
    BY <1>1, <1>3, <1>4 DEF Settled
  <2>3. ClientInv(b, G, {})
    BY <1>0, <1>3, <1>5, <1>6, <2>1 DEF ClientInv
  <2> QED BY <1>3, <2>2, <2>3 DEF Unpumped
<1> HIDE DEF X
<1>8. /\ Working(d, G, X, {}) /\ Within(b, d) /\ Starts(b, d)
      /\ d.engine.refs = b.engine.refs
  BY <1>7, PumpKeeps
<1> HIDE DEF d
<1>9. RefsMatch(d.engine)
  BY <1>3, <1>6, <1>8 DEF RefsMatch, Within
<1>10. Evolves(c.remote, d.remote, {}) /\ key \notin DOMAIN d.engine.active
  BY <1>1, <1>3, <1>4, <1>8 DEF Starts
<1> QED BY <1>8, <1>9, <1>10 DEF Displaced, X, d, b

(* syncEngineRejectListen for the target of a limbo resolution.            *)
LEMMA RejectLimboKeeps ==
  ASSUME NEW c, NEW G, Settled(c, G), c.remote.online # "Offline",
         NEW t \in DOMAIN c.remote.listens, NEW key \in Keys, key = c.remote.listens[t].sdk,
         G.resps # << >>, Head(G.resps).kind = "ERROR", Head(G.resps).t = t
  PROVE  Settled(DropRejectedTarget(RejectLimbo(c, key), t),
                 [G EXCEPT !.resps = Tail(@)])
<1> DEFINE event == LimboRejected(key)
           A == Keys \ Deleted(c, event)
           b == ApplyRemoteEvent(c, event)
           d == Pump([b EXCEPT !.engine.active = Without(@, key)])
           X == {key} \cap DOMAIN b.engine.active
           H == [G EXCEPT !.resps = Tail(@)]
           m == Head(G.resps)
<1>1. EventShape(event) /\ key \in Deleted(c, event)
  BY RejectedDeleted
<1> HIDE DEF event
<1>2. Applying(c, b, G, A) /\ key \in Keys \ A
  BY <1>1, ApplyEventKeeps
<1> HIDE DEF A, b
<1>3. /\ t \in Allocated(c.remote) /\ t \in Nat
      /\ EngineShape(c.engine) /\ Limbo(c.engine, {})
      /\ Watched(c.remote) = DOMAIN c.engine.active \cup DOMAIN c.engine.views
  BY DEF Settled, ClientInv, RemoteInv, RemoteCore, RemoteShape, Allocated
<1>4. Held(c, key, t)
  <2>1. key \in Watched(c.remote)
    BY DEF Watched
  <2>2. key \in DOMAIN c.engine.active
    BY <1>3, <2>1, KeysAreNotQueries DEF EngineShape
  <2> QED BY <1>3, <2>2 DEF Limbo, Held
<1>5. Held(b, key, t)
  BY <1>2, <1>3, <1>4 DEF Applying, HeldOn
<1>6. Displaced(b, d, G, key)
  BY <1>2, <1>5, DisplaceKeeps DEF Applying, Held
<1>7. Settled(b, G) /\ Evolves(c.remote, b.remote, Keys)
  BY <1>2 DEF Applying
<1> HIDE DEF d
<1>8. Working(d, G, X, {}) /\ RefsMatch(d.engine)
  BY <1>6 DEF Displaced
<1>9. key \notin DOMAIN d.engine.active \cup DOMAIN d.engine.views
  BY <1>6, <1>8, WorkingFacts, KeysAreNotQueries DEF Displaced, EngineShape
<1>10. Leftover(d, X, t)
  <2>1. CASE key \in DOMAIN b.engine.active
    <3>1. t \in DOMAIN b.remote.listens /\ b.remote.listens[t].sdk = key
      BY <1>5, <2>1 DEF Held
    <3>2. t \in DOMAIN d.remote.listens /\ d.remote.listens[t].sdk = key
      BY <1>6, <3>1 DEF Displaced, Evolves
    <3>3. X = {key}
      BY <2>1
    <3> QED BY <1>9, <3>2, <3>3 DEF Leftover
  <2>2. CASE key \notin DOMAIN b.engine.active
    <3>1. X = {}
      BY <2>2
    <3>2. Watched(d.remote) = DOMAIN d.engine.active \cup DOMAIN d.engine.views
      BY <1>8, <3>1 DEF Working, Unpumped
    <3>3. key \notin Watched(d.remote)
      BY <1>9, <3>2
    <3>4. ASSUME t \in DOMAIN d.remote.listens PROVE FALSE
      <4>1. t \in Allocated(b.remote)
        BY <1>3, <1>7 DEF Allocated, Evolves
      <4>2. t \in DOMAIN b.remote.listens /\ d.remote.listens[t].sdk = b.remote.listens[t].sdk
        BY <1>6, <3>4, <4>1 DEF Displaced, Evolves
      <4>3. b.remote.listens[t].sdk = key
        BY <1>3, <1>7, <4>2 DEF Evolves
      <4> QED BY <3>3, <3>4, <4>2, <4>3 DEF Watched
    <3> QED BY <3>1, <3>4 DEF Leftover
  <2> QED BY <2>1, <2>2
<1> HIDE DEF X
<1>11. Consumes(d.remote, G, H, m)
  <2>1. ServerShape(d.remote, G)
    BY <1>8, WorkingFacts DEF RemoteInv, RemoteCore
  <2> QED BY <2>1, ConsumeFacts
<1> HIDE DEF H, m
<1>12. m.kind = "ERROR" /\ m.t = t
  BY DEF m
<1>13. Settled(DropRejectedTarget(d, t), H)
  BY <1>8, <1>10, <1>11, <1>12, DropKeeps
<1> QED BY <1>13 DEF RejectLimbo, b, d, H, event

-----------------------------------------------------------------------------
(* What the backend says.                                                  *)

(* p is the queue q with the message m at its end.                         *)
LastWord(q, p, m) ==
  /\ IsSequence(p) /\ Len(q) \in Nat
  /\ DOMAIN q = 1 .. Len(q) /\ DOMAIN p = 1 .. Len(q) + 1
  /\ \A i \in 1 .. Len(q) : p[i] = q[i]
  /\ p[Len(q) + 1] = m

(* What is appended is the last.                                           *)
LEMMA AppendedLast ==
  ASSUME NEW q, IsSequence(q), NEW m
  PROVE  LastWord(q, Append(q, m), m)
BY AppendFacts DEF LastWord

(* So is a sequence of one.                                                *)
LEMMA ConcatLast ==
  ASSUME NEW q, IsSequence(q), NEW m
  PROVE  LastWord(q, q \o <<m>>, m)
<1>1. IsSequence(<<m>>) /\ Len(<<m>>) = 1 /\ <<m>>[1] = m
  <2>1. <<m>> \in Seq({m})
    OBVIOUS
  <2> QED BY <2>1 DEF IsSequence
<1>2. /\ IsSequence(q \o <<m>>)
      /\ Len(q) \in Nat
      /\ DOMAIN q = 1 .. Len(q)
      /\ DOMAIN (q \o <<m>>) = 1 .. Len(q) + Len(<<m>>)
      /\ \A i \in 1 .. Len(q) : (q \o <<m>>)[i] = q[i]
      /\ \A i \in 1 .. Len(<<m>>) : (q \o <<m>>)[Len(q) + i] = <<m>>[i]
  BY <1>1, ConcatFacts
<1> QED BY <1>1, <1>2 DEF LastWord

(* A message counts for its own target, and for no other.                  *)
Adds(q, p, m) ==
  \A kinds, t :
    /\ Cardinality(ResponsesTo(p, kinds, t))
         = Cardinality(ResponsesTo(q, kinds, t)) + Told(m, kinds, t)
    /\ Told(m, kinds, t) = 0 => ResponsesTo(p, kinds, t) = ResponsesTo(q, kinds, t)
    /\ Told(m, kinds, t) = 1 => ResponsesTo(p, kinds, t) # {}

(* The answers to a target after one more message.                         *)
LEMMA LastAdds ==
  ASSUME NEW q, IsSequence(q), NEW p, NEW m, LastWord(q, p, m)
  PROVE  Adds(q, p, m)
<1> DEFINE n == Len(q) + 1
<1>1. /\ n \in Nat \ {0} /\ DOMAIN q = 1 .. n - 1 /\ DOMAIN p = 1 .. n
      /\ \A i \in 1 .. n - 1 : p[i] = q[i]
      /\ p[n] = m
  BY DEF LastWord
<1> HIDE DEF n
<1>2. ASSUME NEW kinds, NEW t
      PROVE  /\ Cardinality(ResponsesTo(p, kinds, t))
                  = Cardinality(ResponsesTo(q, kinds, t)) + Told(m, kinds, t)
             /\ Told(m, kinds, t) = 0 => ResponsesTo(p, kinds, t) = ResponsesTo(q, kinds, t)
             /\ Told(m, kinds, t) = 1 => ResponsesTo(p, kinds, t) # {}
  <2> DEFINE R == ResponsesTo(q, kinds, t)
             S == ResponsesTo(p, kinds, t)
  <2>1. IsFiniteSet(R) /\ Cardinality(R) \in Nat
    BY ResponsesFinite
  <2>2. n \notin R
    BY <1>1 DEF ResponsesTo
  <2>3. CASE m.kind \in kinds /\ m.t = t
    <3>1. Told(m, kinds, t) = 1
      BY <2>3 DEF Told
    <3>2. S = R \cup {n}
      BY <1>1, <2>3 DEF ResponsesTo
    <3> HIDE DEF R, S
    <3>3. Cardinality(S) = Cardinality(R) + 1
      BY <2>1, <2>2, <3>2, FS_AddElement
    <3>4. S # {}
      BY <3>2
    <3> QED BY <3>1, <3>3, <3>4 DEF R, S
  <2>4. CASE ~(m.kind \in kinds /\ m.t = t)
    <3>1. Told(m, kinds, t) = 0
      BY <2>4 DEF Told
    <3>2. S = R
      BY <1>1, <2>4 DEF ResponsesTo
    <3> HIDE DEF R, S
    <3> QED BY <2>1, <3>1, <3>2 DEF R, S
  <2> QED BY <2>3, <2>4
<1> QED BY <1>2 DEF Adds

(* Messages that answer no request, about targets of T.                    *)
Chatter(x, T) ==
  /\ IsSequence(x)
  /\ \A i \in DOMAIN x :
       /\ x[i].kind \notin {"ADD", "REMOVE", "ERROR"}
       /\ x[i].kind # "SNAPSHOT" => x[i].t \in T

(* q with more chatter.                                                    *)
SaysMore(q, p, T) ==
  /\ IsSequence(p)
  /\ \A i \in DOMAIN p :
       \/ i \in DOMAIN q /\ p[i] = q[i]
       \/ p[i].kind # "SNAPSHOT" => p[i].t \in T
  /\ \A t : /\ ResponsesTo(p, {"ADD", "REMOVE"}, t) = ResponsesTo(q, {"ADD", "REMOVE"}, t)
            /\ ResponsesTo(p, {"ERROR"}, t) = ResponsesTo(q, {"ERROR"}, t)

(* Chatter answers nobody.                                                 *)
LEMMA ChatterSays ==
  ASSUME NEW q, IsSequence(q), NEW T, NEW x, Chatter(x, T)
  PROVE  SaysMore(q, q \o x, T)
<1> DEFINE p == q \o x
<1>1. /\ IsSequence(p)
      /\ Len(q) \in Nat /\ Len(x) \in Nat
      /\ DOMAIN q = 1 .. Len(q) /\ DOMAIN x = 1 .. Len(x)
      /\ DOMAIN p = 1 .. Len(q) + Len(x)
      /\ \A i \in 1 .. Len(q) : p[i] = q[i]
      /\ \A i \in 1 .. Len(x) : p[Len(q) + i] = x[i]
  BY ConcatFacts DEF Chatter
<1> HIDE DEF p
<1>2. ASSUME NEW i \in DOMAIN p, i \notin DOMAIN q
      PROVE  i - Len(q) \in DOMAIN x /\ p[i] = x[i - Len(q)]
  <2> DEFINE k == i - Len(q)
  <2>1. k \in 1 .. Len(x) /\ i = Len(q) + k
    BY <1>1, <1>2
  <2> HIDE DEF k
  <2>2. p[i] = x[k]
    BY <1>1, <2>1
  <2> QED BY <1>1, <2>1, <2>2 DEF k
<1>3. ASSUME NEW i \in DOMAIN p, i \notin DOMAIN q
      PROVE  /\ p[i].kind \notin {"ADD", "REMOVE", "ERROR"}
             /\ p[i].kind # "SNAPSHOT" => p[i].t \in T
  <2> DEFINE k == i - Len(q)
  <2>1. k \in DOMAIN x /\ p[i] = x[k]
    BY <1>2, <1>3
  <2> HIDE DEF k
  <2> QED BY <2>1 DEF Chatter
<1>4. \A i \in DOMAIN q : i \in DOMAIN p /\ p[i] = q[i]
  BY <1>1
<1>5. ASSUME NEW t, NEW kinds \in SUBSET {"ADD", "REMOVE", "ERROR"}
      PROVE  ResponsesTo(p, kinds, t) = ResponsesTo(q, kinds, t)
  <2>1. \A i \in DOMAIN p : p[i].kind \in kinds => i \in DOMAIN q
    BY <1>3
  <2> QED BY <1>4, <2>1 DEF ResponsesTo
<1>6. \A i \in DOMAIN p :
        \/ i \in DOMAIN q /\ p[i] = q[i]
        \/ p[i].kind # "SNAPSHOT" => p[i].t \in T
  BY <1>3, <1>4
<1>7. {"ADD", "REMOVE"} \in SUBSET {"ADD", "REMOVE", "ERROR"}
        /\ {"ERROR"} \in SUBSET {"ADD", "REMOVE", "ERROR"}
  OBVIOUS
<1>8. \A t : /\ ResponsesTo(p, {"ADD", "REMOVE"}, t) = ResponsesTo(q, {"ADD", "REMOVE"}, t)
             /\ ResponsesTo(p, {"ERROR"}, t) = ResponsesTo(q, {"ERROR"}, t)
  BY <1>5, <1>7
<1> QED BY <1>1, <1>6, <1>8 DEF SaysMore, p

(* Chatter after chatter.                                                  *)
LEMMA SaysMoreOn ==
  ASSUME NEW q, NEW p, NEW o, NEW T, SaysMore(q, p, T), SaysMore(p, o, T)
  PROVE  SaysMore(q, o, T)
BY DEF SaysMore

(* The chatter of the backend disturbs no conversation.                    *)
LEMMA SaysMoreKeeps ==
  ASSUME NEW r, NEW G, NEW H, RemoteInv(r, G), DOMAIN H = ServerFields,
         DOMAIN H.accepted = DOMAIN G.accepted,
         SaysMore(G.resps, H.resps, Allocated(r))
  PROVE  RemoteInv(r, H)
<1>1. ServerShape(r, G) /\ RemoteCore(r, G)
  BY DEF RemoteInv, RemoteCore
<1>2. ServerShape(r, H)
  BY <1>1 DEF ServerShape, SaysMore
<1>3. ASSUME NEW t, Conversation(r, G, t)
      PROVE  Conversation(r, H, t)
  <2>1. /\ ResponsesTo(H.resps, {"ADD", "REMOVE"}, t) = ResponsesTo(G.resps, {"ADD", "REMOVE"}, t)
        /\ ResponsesTo(H.resps, {"ERROR"}, t) = ResponsesTo(G.resps, {"ERROR"}, t)
    BY DEF SaysMore
  <2>2. Counted(r, G, t) => Counted(r, H, t)
    BY <2>1 DEF Counted
  <2>3. Alternates(r, G, t) => Alternates(r, H, t)
    BY DEF Alternates
  <2>4. EndsAccepted(r, G, t) => EndsAccepted(r, H, t)
    BY DEF EndsAccepted
  <2> QED BY <1>3, <2>1, <2>2, <2>3, <2>4 DEF Conversation
<1> QED BY <1>1, <1>2, <1>3 DEF RemoteInv, RemoteCore

-----------------------------------------------------------------------------
(* The backend reads a request.                                            *)

(* s is r without its first request h; what is asked of a target moves up. *)
Requested(r, s, h) ==
  /\ RemoteShape(s) /\ s.stream = "Open" /\ s.listens = r.listens /\ s.agg = r.agg
  /\ s.idle = r.idle /\ s.nextId = r.nextId /\ s.online = r.online
  /\ s.timer = r.timer /\ s.failures = r.failures
  /\ s.orphan = r.orphan /\ s.strays = r.strays /\ s.causes = r.causes
  /\ \A u, i : i \in AskedOf(s, u) <=> i \in Nat \ {0} /\ i + 1 \in AskedOf(r, u)
  /\ \A u : AskedOf(s, u) \subseteq Nat /\ AskedOf(r, u) \subseteq Nat \ {0}
  /\ \A u, i : i \in AskedOf(s, u) => s.reqs[i] = r.reqs[i + 1]
  /\ \A u : 1 \in AskedOf(r, u) <=> u = h.t
  /\ h = r.reqs[1]
  /\ \A u : Cardinality(AskedOf(s, u)) =
              Cardinality(AskedOf(r, u)) - (IF u = h.t THEN 1 ELSE 0)

(* The first request of the queue leaves it.                               *)
LEMMA RequestedFacts ==
  ASSUME NEW r, RemoteShape(r), r.stream = "Open", r.reqs # << >>
  PROVE  Requested(r, [r EXCEPT !.reqs = Tail(@)], Head(r.reqs))
<1> DEFINE q == r.reqs
           n == Len(q)
           h == Head(q)
           s == [r EXCEPT !.reqs = Tail(@)]
<1>0. IsSequence(q)
  BY DEF RemoteShape
<1>1. /\ IsSequence(Tail(q)) /\ h = q[1] /\ n \in Nat \ {0} /\ DOMAIN q = 1 .. n
      /\ DOMAIN Tail(q) = 1 .. n - 1
      /\ \A i \in 1 .. n - 1 : Tail(q)[i] = q[i + 1]
  BY <1>0, TailFacts
<1>2. /\ IsFunction(s) /\ DOMAIN s = RemoteFields /\ s.reqs = Tail(q)
      /\ s.agg = r.agg /\ s.listens = r.listens /\ s.stream = r.stream
      /\ s.idle = r.idle /\ s.nextId = r.nextId /\ s.online = r.online
      /\ s.timer = r.timer /\ s.failures = r.failures
      /\ s.orphan = r.orphan /\ s.strays = r.strays /\ s.causes = r.causes
  BY DEF RemoteShape, IsFunction, RemoteFields
<1> HIDE DEF s, n, h
<1>3. RemoteShape(s)
  <2>1. \A i \in DOMAIN s.reqs : s.reqs[i].t \in Allocated(r)
    <3>1. \A i \in 1 .. n - 1 : i + 1 \in DOMAIN q
      BY <1>1
    <3> QED BY <1>1, <1>2, <3>1 DEF RemoteShape
  <2>2. Allocated(s) = Allocated(r)
    BY <1>2 DEF Allocated
  <2> QED BY <1>1, <1>2, <2>1, <2>2 DEF RemoteShape
<1>4. ASSUME NEW u
      PROVE  /\ \A i : i \in AskedOf(s, u) <=> i \in Nat \ {0} /\ i + 1 \in AskedOf(r, u)
             /\ AskedOf(s, u) \subseteq Nat /\ AskedOf(r, u) \subseteq Nat \ {0}
             /\ \A i : i \in AskedOf(s, u) => s.reqs[i] = r.reqs[i + 1]
             /\ 1 \in AskedOf(r, u) <=> u = h.t
             /\ Cardinality(AskedOf(s, u)) =
                  Cardinality(AskedOf(r, u)) - (IF u = h.t THEN 1 ELSE 0)
  <2> DEFINE R == AskedOf(r, u)
             S == AskedOf(s, u)
  <2>1. R \in SUBSET (1 .. n)
    BY <1>1 DEF AskedOf
  <2>2. \A i : i \in 1 .. n - 1 <=> i \in Nat \ {0} /\ i + 1 \in 1 .. n
    BY <1>1
  <2>3. \A i \in 1 .. n - 1 : i + 1 \in DOMAIN q /\ s.reqs[i] = q[i + 1]
    BY <1>1, <1>2
  <2>4. S = MovedUp(R, n)
    BY <1>1, <1>2, <2>3 DEF AskedOf, MovedUp
  <2>5. 1 \in R <=> u = h.t
    BY <1>1 DEF AskedOf
  <2>6. \A i : i \in S => i \in 1 .. n - 1
    BY <2>4 DEF MovedUp
  <2>7. \A i : i \in S => s.reqs[i] = q[i + 1]
    BY <2>3, <2>6
  <2> HIDE DEF R, S
  <2>8. Cardinality(S) = Cardinality(R) - (IF u = h.t THEN 1 ELSE 0)
    BY <1>1, <2>1, <2>4, <2>5, MovedUpFacts
  <2>9. \A i : i \in S <=> i \in Nat \ {0} /\ i + 1 \in R
    <3>1. \A i : i \in S <=> i \in 1 .. n - 1 /\ i + 1 \in R
      BY <2>4 DEF MovedUp
    <3> QED BY <2>1, <2>2, <3>1
  <2>10. S \subseteq Nat /\ R \subseteq Nat \ {0}
    BY <1>1, <2>1, <2>9
  <2> QED BY <2>5, <2>7, <2>8, <2>9, <2>10 DEF R, S
<1> QED BY <1>1, <1>2, <1>3, <1>4 DEF Requested, s, h

(* The backend, when it has answered the request h.                        *)
Answered(G, H, h) ==
  /\ DOMAIN H = ServerFields /\ IsSequence(H.resps)
  /\ \A u : u # h.t => (u \in DOMAIN H.accepted <=> u \in DOMAIN G.accepted)
  /\ h.op = "add" => h.t \in DOMAIN H.accepted
  /\ h.op \in {"add", "remove"}
  /\ \A u : ResponsesTo(H.resps, {"ERROR"}, u) = {} <=> ResponsesTo(G.resps, {"ERROR"}, u) = {}
  /\ \A u : Cardinality(ResponsesTo(H.resps, {"ADD", "REMOVE"}, u)) =
              Cardinality(ResponsesTo(G.resps, {"ADD", "REMOVE"}, u)) +
                (IF u = h.t /\ (h.op = "add" \/ h.t \in DOMAIN G.accepted) THEN 1 ELSE 0)

(* The request to remove a target finds it there.                          *)
LEMMA ReadConversation ==
  ASSUME NEW r, NEW s, NEW h, NEW G, NEW H, NEW u, RemoteShape(r), IsSequence(G.resps),
         Requested(r, s, h), Answered(G, H, h), r.stream = "Open", Conversation(r, G, u)
  PROVE  Conversation(s, H, u)
<1> SUFFICES ASSUME ResponsesTo(H.resps, {"ERROR"}, u) = {},
                    u \in DOMAIN r.listens \cup DOMAIN r.agg.states
             PROVE  /\ Counted(s, H, u) /\ Alternates(s, H, u)
                    /\ u \in DOMAIN r.listens => EndsAccepted(s, H, u)
  BY DEF Conversation, Requested
<1>1. /\ Counted(r, G, u) /\ Alternates(r, G, u)
      /\ u \in DOMAIN r.listens => EndsAccepted(r, G, u)
  BY DEF Conversation, Answered
<1>2. /\ \A i : i \in AskedOf(s, u) <=> i \in Nat \ {0} /\ i + 1 \in AskedOf(r, u)
      /\ AskedOf(s, u) \subseteq Nat /\ AskedOf(r, u) \subseteq Nat \ {0}
      /\ \A i : i \in AskedOf(s, u) => s.reqs[i] = r.reqs[i + 1]
      /\ 1 \in AskedOf(r, u) <=> u = h.t
      /\ h = r.reqs[1] /\ h.op \in {"add", "remove"}
  BY DEF Requested, Answered
<1>3. u = h.t => h.op = "add" \/ h.t \in DOMAIN G.accepted
  <2> SUFFICES ASSUME u = h.t, h.op = "remove" PROVE h.t \in DOMAIN G.accepted
    BY <1>2
  <2>1. 1 \in AskedOf(r, u) /\ r.reqs[1].op = "remove"
    BY <1>2
  <2>2. ~ \E j \in AskedOf(r, u) : j < 1
    BY <1>2
  <2> QED BY <1>1, <2>1, <2>2 DEF Alternates
<1>4. Counted(s, H, u)
  <2> DEFINE was == Cardinality(ResponsesTo(G.resps, {"ADD", "REMOVE"}, u))
             is == Cardinality(ResponsesTo(H.resps, {"ADD", "REMOVE"}, u))
             wanted == Cardinality(AskedOf(r, u))
             wants == Cardinality(AskedOf(s, u))
  <2>1. PendingOf(s, u) = PendingOf(r, u)
    BY DEF Requested, PendingOf
  <2>2. wants = wanted - (IF u = h.t THEN 1 ELSE 0)
    BY DEF Requested
  <2>3. is = was + (IF u = h.t THEN 1 ELSE 0)
    BY <1>3 DEF Answered
  <2>4. was \in Nat
    BY ResponsesFinite
  <2>5. wanted \in Nat
    BY AskedFinite
  <2>6. PendingOf(r, u) = wanted + was
    BY <1>1 DEF Counted
  <2>7. PendingOf(s, u) = wants + is => Counted(s, H, u)
    BY DEF Counted
  <2> HIDE DEF was, is, wanted, wants
  <2>8. CASE u = h.t
    BY <2>1, <2>2, <2>3, <2>4, <2>5, <2>6, <2>7, <2>8
  <2>9. CASE u # h.t
    BY <2>1, <2>2, <2>3, <2>4, <2>5, <2>6, <2>7, <2>9
  <2> QED BY <2>8, <2>9
<1>5. Alternates(s, H, u)
  <2> SUFFICES ASSUME NEW i \in AskedOf(s, u), s.reqs[i].op = "remove"
               PROVE  \/ \E j \in AskedOf(s, u) :
                           /\ j < i /\ s.reqs[j].op = "add"
                           /\ \A k \in AskedOf(s, u) : k <= j \/ k >= i
                      \/ u \in DOMAIN H.accepted /\ \A k \in AskedOf(s, u) : k >= i
    BY DEF Alternates
  <2> DEFINE i1 == i + 1
  <2>1. i \in Nat \ {0} /\ i1 \in AskedOf(r, u) /\ r.reqs[i1].op = "remove"
    BY <1>2
  <2>2. \A k \in AskedOf(s, u) : k \in Nat /\ k + 1 \in AskedOf(r, u)
    BY <1>2
  <2>3. CASE \E j \in AskedOf(r, u) :
               /\ j < i1 /\ r.reqs[j].op = "add"
               /\ \A k \in AskedOf(r, u) : k <= j \/ k >= i1
    <3>1. PICK j \in AskedOf(r, u) :
                 /\ j < i1 /\ r.reqs[j].op = "add"
                 /\ \A k \in AskedOf(r, u) : k <= j \/ k >= i1
      BY <2>3
    <3>2. j \in Nat \ {0}
      BY <1>2
    <3>3. CASE j = 1
      <4>1. u = h.t /\ h.op = "add"
        BY <1>2, <3>1, <3>3
      <4>2. u \in DOMAIN H.accepted
        BY <4>1 DEF Answered
      <4>3. ASSUME NEW k \in AskedOf(s, u) PROVE k >= i
        <5>1. k \in Nat \ {0} /\ k + 1 \in AskedOf(r, u)
          BY <1>2
        <5>2. k + 1 <= 1 \/ k + 1 >= i + 1
          BY <3>1, <3>3, <5>1
        <5> QED BY <2>1, <5>1, <5>2
      <4> QED BY <4>2, <4>3
    <3>4. CASE j # 1
      <4> DEFINE l == j - 1
      <4>1. l \in Nat \ {0} /\ j = l + 1
        BY <3>2, <3>4
      <4> HIDE DEF l
      <4>2. l \in AskedOf(s, u) /\ s.reqs[l] = r.reqs[j] /\ l < i
        BY <1>2, <2>1, <3>1, <4>1
      <4>3. ASSUME NEW k \in AskedOf(s, u) PROVE k <= l \/ k >= i
        <5>1. k \in Nat /\ k + 1 \in AskedOf(r, u)
          BY <2>2
        <5>2. k + 1 <= l + 1 \/ k + 1 >= i + 1
          BY <3>1, <4>1, <5>1
        <5> QED BY <2>1, <4>1, <5>1, <5>2
      <4> QED BY <3>1, <4>2, <4>3
    <3> QED BY <3>3, <3>4
  <2>4. CASE u \in DOMAIN G.accepted /\ \A k \in AskedOf(r, u) : k >= i1
    <3>1. 1 \notin AskedOf(r, u)
      BY <2>1, <2>4
    <3>2. u \in DOMAIN H.accepted
      BY <1>2, <2>4, <3>1 DEF Answered
    <3>3. ASSUME NEW k \in AskedOf(s, u) PROVE k >= i
      <4>1. k \in Nat /\ k + 1 >= i + 1
        BY <2>2, <2>4
      <4> QED BY <2>1, <4>1
    <3> QED BY <3>2, <3>3
  <2> HIDE DEF i1
  <2> QED BY <1>1, <2>1, <2>3, <2>4 DEF Alternates
<1>6. ASSUME u \in DOMAIN r.listens PROVE EndsAccepted(s, H, u)
  <2>1. EndsAccepted(r, G, u)
    BY <1>1, <1>6
  <2>2. \A k \in AskedOf(s, u) : k \in Nat /\ k + 1 \in AskedOf(r, u)
    BY <1>2
  <2>3. CASE \E j \in AskedOf(r, u) :
               r.reqs[j].op = "add" /\ \A k \in AskedOf(r, u) : k <= j
    <3>1. PICK j \in AskedOf(r, u) :
                 r.reqs[j].op = "add" /\ \A k \in AskedOf(r, u) : k <= j
      BY <2>3
    <3>2. j \in Nat \ {0}
      BY <1>2
    <3>3. CASE j = 1
      <4>1. u = h.t /\ h.op = "add"
        BY <1>2, <3>1, <3>3
      <4>2. u \in DOMAIN H.accepted
        BY <4>1 DEF Answered
      <4>3. ASSUME NEW k \in AskedOf(s, u) PROVE FALSE
        <5>1. k \in Nat \ {0} /\ k + 1 \in AskedOf(r, u)
          BY <1>2
        <5>2. k + 1 <= 1
          BY <3>1, <3>3, <5>1
        <5> QED BY <5>1, <5>2
      <4>4. AskedOf(s, u) = {}
        BY <4>3
      <4> QED BY <4>2, <4>4 DEF EndsAccepted
    <3>4. CASE j # 1
      <4> DEFINE l == j - 1
      <4>1. l \in Nat \ {0} /\ j = l + 1
        BY <3>2, <3>4
      <4> HIDE DEF l
      <4>2. l \in AskedOf(s, u) /\ s.reqs[l] = r.reqs[j]
        BY <1>2, <4>1
      <4>3. ASSUME NEW k \in AskedOf(s, u) PROVE k <= l
        <5>1. k \in Nat /\ k + 1 <= l + 1
          BY <2>2, <3>1, <4>1
        <5> QED BY <4>1, <5>1
      <4> QED BY <3>1, <4>2, <4>3 DEF EndsAccepted
    <3> QED BY <3>3, <3>4
  <2>4. CASE u \in DOMAIN G.accepted /\ AskedOf(r, u) = {}
    <3>1. u # h.t
      BY <1>2, <2>4
    <3>2. u \in DOMAIN H.accepted
      BY <2>4, <3>1 DEF Answered
    <3>3. AskedOf(s, u) = {}
      BY <2>2, <2>4
    <3> QED BY <3>2, <3>3 DEF EndsAccepted
  <2> QED BY <2>1, <2>3, <2>4 DEF EndsAccepted
<1> QED BY <1>4, <1>5, <1>6

(* The backend answers the first request.                                  *)
LEMMA RequestKeeps ==
  ASSUME NEW r, NEW G, NEW H, RemoteInv(r, G), r.stream = "Open", r.reqs # << >>,
         ServerShape(r, H), Answered(G, H, Head(r.reqs))
  PROVE  RemoteInv([r EXCEPT !.reqs = Tail(@)], H)
<1> DEFINE h == Head(r.reqs)
           s == [r EXCEPT !.reqs = Tail(@)]
<1>1. /\ RemoteShape(r) /\ IdleSound(r) /\ OnlineSound(r) /\ IsSequence(G.resps)
      /\ \A t \in Allocated(r) : Conversation(r, G, t)
  BY DEF RemoteInv, RemoteCore, ServerShape
<1>2. Requested(r, s, h)
  BY <1>1, RequestedFacts
<1> HIDE DEF s, h
<1>3. Allocated(s) = Allocated(r)
  BY <1>2 DEF Requested, Allocated
<1>4. IdleSound(s) /\ OnlineSound(s)
  BY <1>1, <1>2 DEF IdleSound, OnlineSound, Requested
<1>5. ServerShape(s, H)
  BY <1>3 DEF ServerShape
<1>6. \A t \in Allocated(s) : Conversation(s, H, t)
  BY <1>1, <1>2, <1>3, ReadConversation DEF h
<1> QED BY <1>2, <1>4, <1>5, <1>6 DEF RemoteInv, RemoteCore, Requested, s

-----------------------------------------------------------------------------
(* The messages of the backend, one kind after the other.                  *)

(* A function on the numbers up to n is a sequence.                        *)
LEMMA SequenceOf ==
  ASSUME NEW n \in Nat, NEW f, DOMAIN f = 1 .. n, IsFunction(f)
  PROVE  IsSequence(f)
<1>1. f \in [1 .. n -> {f[i] : i \in 1 .. n}]
  BY DEF IsFunction
<1>2. f \in Seq({f[i] : i \in 1 .. n})
  BY <1>1
<1> QED BY <1>2 DEF IsSequence

(* A message of no request, about a target of T.                           *)
Remark(m, T) ==
  m.kind \notin {"ADD", "REMOVE", "ERROR"} /\ (m.kind # "SNAPSHOT" => m.t \in T)

(* Remarks in a row are chatter.                                           *)
LEMMA ChatterOf ==
  ASSUME NEW S, IsFiniteSet(S), NEW f, NEW T, \A k \in S : Remark(f[k], T),
         NEW x, x = [i \in DOMAIN SetToSeq(S) |-> f[SetToSeq(S)[i]]]
  PROVE  Chatter(x, T)
<1> DEFINE w == SetToSeq(S)
<1>1. w \in Seq(S)
  BY SetToSeqFacts
<1> HIDE DEF w
<1>2. x = [i \in DOMAIN w |-> f[w[i]]]
  BY DEF w
<1>3. Len(w) \in Nat /\ DOMAIN w = 1 .. Len(w) /\ \A i \in 1 .. Len(w) : w[i] \in S
  BY <1>1
<1>4. DOMAIN x = 1 .. Len(w) /\ IsFunction(x)
  BY <1>2, <1>3 DEF IsFunction
<1>5. IsSequence(x)
  BY <1>3, <1>4, SequenceOf
<1>6. \A i \in DOMAIN x : Remark(x[i], T)
  BY <1>2, <1>3
<1> QED BY <1>5, <1>6 DEF Chatter, Remark

(* Chatter after chatter.                                                  *)
LEMMA ChatterConcat ==
  ASSUME NEW x, NEW y, NEW T, Chatter(x, T), Chatter(y, T)
  PROVE  Chatter(x \o y, T)
<1> DEFINE p == x \o y
<1>1. /\ IsSequence(p)
      /\ Len(x) \in Nat /\ Len(y) \in Nat
      /\ DOMAIN x = 1 .. Len(x) /\ DOMAIN y = 1 .. Len(y)
      /\ DOMAIN p = 1 .. Len(x) + Len(y)
      /\ \A i \in 1 .. Len(x) : p[i] = x[i]
      /\ \A i \in 1 .. Len(y) : p[Len(x) + i] = y[i]
  BY ConcatFacts DEF Chatter
<1> HIDE DEF p
<1>2. ASSUME NEW i \in DOMAIN p
      PROVE  Remark(p[i], T)
  <2>1. CASE i \in 1 .. Len(x)
    BY <1>1, <2>1 DEF Chatter, Remark
  <2>2. CASE i \notin 1 .. Len(x)
    <3> DEFINE k == i - Len(x)
    <3>1. k \in 1 .. Len(y) /\ i = Len(x) + k
      BY <1>1, <1>2, <2>2
    <3> HIDE DEF k
    <3>2. p[i] = y[k] /\ k \in DOMAIN y
      BY <1>1, <3>1
    <3> QED BY <3>2 DEF Chatter, Remark
  <2> QED BY <2>1, <2>2
<1> QED BY <1>1, <1>2 DEF Chatter, Remark, p

(* One remark.                                                             *)
LEMMA OneRemark ==
  ASSUME NEW m, NEW T, Remark(m, T)
  PROVE  Chatter(<<m>>, T)
<1>1. <<m>> \in Seq({m}) /\ DOMAIN <<m>> = {1} /\ <<m>>[1] = m
  OBVIOUS
<1> QED BY <1>1 DEF Chatter, Remark, IsSequence

(* Saying nothing.                                                         *)
LEMMA NoRemark ==
  ASSUME NEW T
  PROVE  Chatter(<< >>, T)
BY EmptyFunction DEF Chatter

(* The documents of a target.                                              *)
LEMMA UpdatesChatter ==
  ASSUME NEW T, NEW t \in T, NEW what, NEW since
  PROVE  Chatter(Updates(t, what, since), T)
<1> DEFINE docs == server.hist[Now]
           S == {k \in Holds(docs, what) : docs[k].ver > since}
           f == [k \in S |-> DocumentMessage(t, k, docs[k], TRUE)]
           x == Updates(t, what, since)
<1>1. IsFiniteSet(S)
  <2>1. S \subseteq Keys
    BY DEF Holds
  <2> QED BY <2>1, FinitelyMany, FS_Subset
<1>2. x = [i \in DOMAIN SetToSeq(S) |-> f[SetToSeq(S)[i]]]
  <2> DEFINE w == SetToSeq(S)
  <2>1. w \in Seq(S)
    BY <1>1, SetToSeqFacts
  <2>2. x = [i \in DOMAIN w |-> DocumentMessage(t, w[i], docs[w[i]], TRUE)]
    BY DEF Updates, Each
  <2> HIDE DEF w
  <2>3. \A i \in DOMAIN w : w[i] \in S
    BY <2>1
  <2> HIDE DEF S, x
  <2>4. \A i \in DOMAIN w : f[w[i]] = DocumentMessage(t, w[i], docs[w[i]], TRUE)
    BY <2>3
  <2> HIDE DEF f
  <2>5. x = [i \in DOMAIN w |-> f[w[i]]]
    BY <2>2, <2>4
  <2> QED BY <2>5 DEF w
<1>3. \A k \in S : Remark(f[k], T)
  BY DEF Remark, DocumentMessage
<1> HIDE DEF S, f, x
<1>4. Chatter(x, T)
  BY <1>1, <1>2, <1>3, ChatterOf
<1> QED BY <1>4 DEF x

(* The documents that have left it.                                        *)
LEMMA DeparturesChatter ==
  ASSUME NEW T, NEW t \in T, NEW what, NEW since, NEW bare
  PROVE  Chatter(Departures(t, what, since, bare), T)
<1> DEFINE docs == server.hist[Now]
           S == Holds(server.hist[since], what) \ Holds(docs, what)
           f == [k \in S |-> DocumentMessage(t, k, IF bare THEN NoUpdate ELSE docs[k], FALSE)]
           x == Departures(t, what, since, bare)
<1>1. IsFiniteSet(S)
  <2>1. S \subseteq Keys
    BY DEF Holds
  <2> QED BY <2>1, FinitelyMany, FS_Subset
<1>2. x = [i \in DOMAIN SetToSeq(S) |-> f[SetToSeq(S)[i]]]
  <2> DEFINE w == SetToSeq(S)
  <2>1. w \in Seq(S)
    BY <1>1, SetToSeqFacts
  <2>2. x = [i \in DOMAIN w |->
               DocumentMessage(t, w[i], IF bare THEN NoUpdate ELSE docs[w[i]], FALSE)]
    BY DEF Departures, Each
  <2> HIDE DEF w
  <2>3. \A i \in DOMAIN w : w[i] \in S
    BY <2>1
  <2> HIDE DEF S, x
  <2>4. \A i \in DOMAIN w :
          f[w[i]] = DocumentMessage(t, w[i], IF bare THEN NoUpdate ELSE docs[w[i]], FALSE)
    BY <2>3
  <2> HIDE DEF f
  <2>5. x = [i \in DOMAIN w |-> f[w[i]]]
    BY <2>2, <2>4
  <2> QED BY <2>5 DEF w
<1>3. \A k \in S : Remark(f[k], T)
  BY DEF Remark, DocumentMessage
<1> HIDE DEF S, f, x
<1>4. Chatter(x, T)
  BY <1>1, <1>2, <1>3, ChatterOf
<1> QED BY <1>4 DEF x

(* Every way to answer a watch request.                                    *)
LEMMA AnswersChatter ==
  ASSUME NEW T, NEW request, request.t \in T, NEW body \in Answers(request)
  PROVE  Chatter(body, T)
<1> DEFINE t == request.t
           what == request.what
           since == request.from
           all == Updates(t, what, 0)
           result == Holds(server.hist[Now], what)
           new == Updates(t, what, since)
           FilterOf(might) == <<ExistenceFilter(t, what, might)>>
           exact == {Departures(t, what, since, bare) : bare \in BOOLEAN}
           trusted == request.expected = Cardinality(Holds(server.hist[since], what))
           counted == {NoUpdate} \cup {result \cup extra : extra \in {{}, Keys}}
<1>1. Chatter(all, T) /\ Chatter(new, T)
  BY UpdatesChatter
<1>2. \A gone \in exact : Chatter(gone, T)
  BY DeparturesChatter
<1>3. \A might : Chatter(FilterOf(might), T)
  <2>1. \A might : Remark(ExistenceFilter(t, what, might), T)
    BY DEF ExistenceFilter, Remark
  <2> QED BY <2>1, OneRemark
<1>4. Chatter(<<TargetMessage("RESET", t, 0)>>, T)
  <2>1. Remark(TargetMessage("RESET", t, 0), T)
    BY DEF TargetMessage, Remark
  <2> QED BY <2>1, OneRemark
<1>5. \/ body = all
      \/ body = <<TargetMessage("RESET", t, 0)>> \o all
      \/ \E gone \in exact : body = new \o gone \o (IF trusted THEN << >> ELSE FilterOf(NoUpdate))
      \/ \E might \in counted : body = new \o FilterOf(might)
  BY DEF Answers
<1> HIDE DEF all, new, FilterOf, exact, trusted, counted
<1>6. CASE body = all
  BY <1>1, <1>6
<1>7. CASE body = <<TargetMessage("RESET", t, 0)>> \o all
  BY <1>1, <1>4, <1>7, ChatterConcat
<1>8. ASSUME NEW gone \in exact,
             body = new \o gone \o (IF trusted THEN << >> ELSE FilterOf(NoUpdate))
      PROVE  Chatter(body, T)
  <2>1. Chatter(new \o gone, T)
    BY <1>1, <1>2, ChatterConcat
  <2>2. Chatter(IF trusted THEN << >> ELSE FilterOf(NoUpdate), T)
    BY <1>3, NoRemark
  <2> QED BY <1>8, <2>1, <2>2, ChatterConcat
<1>9. ASSUME NEW might \in counted, body = new \o FilterOf(might)
      PROVE  Chatter(body, T)
  BY <1>1, <1>3, <1>9, ChatterConcat
<1> QED BY <1>5, <1>6, <1>7, <1>8, <1>9

-----------------------------------------------------------------------------
(* The actions.                                                            *)

(* The invariant says that the client is between two tasks, and that a     *)
(* stream that is not open has no messages.                                *)
LEMMA InvariantParts ==
  ListenInv <=> Settled(Client, server) /\ Quiesced(Client, server)
BY DEF ListenInv, Settled, Quiesced, Client

(* Only the fields of a client matter.                                     *)
LEMMA SameFields ==
  ASSUME NEW c, NEW d, NEW G, Settled(c, G), DOMAIN d = ClientFields,
         d.remote = c.remote, d.engine = c.engine, d.store = c.store
  PROVE  Settled(d, G)
<1>1. OfflineKnown(d)
  BY DEF Settled, ClientInv, OfflineKnown
<1> QED BY <1>1 DEF Settled, ClientInv

(* The client's three parts.                                               *)
LEMMA ClientDomain ==
  DOMAIN Client = ClientFields /\ Client.remote = remote
    /\ Client.engine = engine /\ Client.store = store
BY DEF Client, ClientFields

(* The step to a settled client.                                           *)
LEMMA BecomeKeeps ==
  ASSUME NEW c, NEW G, Become(c), server' = G, Settled(c, G), Quiesced(c, G)
  PROVE  ListenInv'
<1> DEFINE d == [remote |-> remote', engine |-> engine', store |-> store']
<1>1. DOMAIN d = ClientFields /\ d.remote = c.remote /\ d.engine = c.engine /\ d.store = c.store
  BY DEF Become, ClientFields
<1>2. Settled(d, G)
  BY <1>1, SameFields
<1>3. Quiesced(d, G)
  BY <1>1 DEF Quiesced
<1>4. ListenInv' <=> Settled(d, server') /\ Quiesced(d, server')
  BY DEF ListenInv, Settled, Quiesced, Client
<1> QED BY <1>2, <1>3, <1>4

(* The end of a task.                                                      *)
LEMMA FinishKeeps ==
  ASSUME NEW c, Finish(c), Settled(c, server)
  PROVE  ListenInv'
<1>1. Settled(c, OpenServer(c, server)) /\ Quiesced(c, OpenServer(c, server))
  BY OpenServerKeeps
<1> QED BY <1>1, BecomeKeeps DEF Finish, Task

(* The end of a task that has read a message.                              *)
LEMMA FinishMessageKeeps ==
  ASSUME NEW c, FinishMessage(c), Settled(c, Consumed)
  PROVE  ListenInv'
<1>1. Settled(c, OpenServer(c, Consumed)) /\ Quiesced(c, OpenServer(c, Consumed))
  BY OpenServerKeeps
<1> QED BY <1>1, BecomeKeeps DEF FinishMessage, Task

(* Nothing that the invariant is about changes.                            *)
LEMMA StutterKeeps ==
  ASSUME ListenInv, UNCHANGED vars
  PROVE  ListenInv'
BY DEF ListenInv, Client, vars, IsReferenced

(* The backend moves, and with it the requests.                            *)
LEMMA BackendKeeps ==
  ASSUME ListenInv, UNCHANGED <<engine, store>>, RemoteInv(remote', server'),
         remote'.listens = remote.listens, remote'.online = remote.online,
         remote'.stream = remote.stream, remote.stream = "Open"
  PROVE  ListenInv'
<1>1. Settled(Client, server)
  BY InvariantParts
<1> DEFINE d == [remote |-> remote', engine |-> engine', store |-> store']
           G == server'
<1>2. Kept(Client, d) /\ d.remote = remote'
  BY DEF Kept, Client, ClientFields
<1>3. Watched(d.remote) = Watched(Client.remote) /\ Quiet(Client.remote, d.remote)
  BY <1>2 DEF Watched, Quiet, Client
<1>4. RemoteInv(d.remote, G)
  BY <1>2
<1> HIDE DEF d, G
<1>5. Settled(d, G)
  BY <1>1, <1>2, <1>3, <1>4, SettledMoves
<1>6. Quiesced(d, G)
  BY <1>2 DEF Quiesced
<1>7. Become(d)
  BY DEF Become, d
<1> QED BY <1>5, <1>6, <1>7, BecomeKeeps DEF G

(* Somebody writes a document.                                             *)
LEMMA CommitsKeep ==
  ASSUME ListenInv, ServerCommits
  PROVE  ListenInv'
<1>1. Settled(Client, server) /\ Quiesced(Client, server)
  BY InvariantParts
<1> DEFINE G == server
           H == server'
<1>2. ServerShape(remote, G) /\ RemoteInv(remote, G)
  BY <1>1 DEF Settled, ClientInv, RemoteInv, RemoteCore, Client
<1>3. DOMAIN H = ServerFields /\ H.resps = G.resps /\ H.accepted = G.accepted
  BY <1>2 DEF ServerCommits, ServerShape, ServerFields
<1>4. remote' = remote /\ engine' = engine /\ store' = store
  BY DEF ServerCommits
<1> HIDE DEF H
<1>5. RemoteInv(remote, H)
  <2>1. IsSequence(G.resps)
    BY <1>2 DEF ServerShape
  <2>2. SaysMore(G.resps, G.resps, Allocated(remote))
    BY <1>2, <2>1 DEF SaysMore, ServerShape
  <2> QED BY <1>2, <1>3, <2>2, SaysMoreKeeps
<1>6. Settled(Client, H)
  <2>1. Kept(Client, Client) /\ RemoteInv(Client.remote, H)
    BY <1>5 DEF Kept, Client, ClientFields
  <2> QED BY <1>1, <2>1, SettledMoves DEF Quiet
<1>7. Quiesced(Client, H)
  BY <1>1, <1>3 DEF Quiesced
<1>8. Become(Client) /\ server' = H
  BY <1>4 DEF Become, Client, H
<1> QED BY <1>6, <1>7, <1>8, BecomeKeeps

(* What the invariant says of RemoteStore, the requests and the backend.   *)
LEMMA RemoteParts ==
  ASSUME ListenInv
  PROVE  /\ RemoteInv(remote, server) /\ RemoteShape(remote) /\ ServerShape(remote, server)
         /\ IsSequence(server.resps) /\ DOMAIN server = ServerFields
         /\ IsFunction(remote) /\ DOMAIN remote = RemoteFields
         /\ DOMAIN server.accepted \subseteq Allocated(remote)
         /\ \A i \in DOMAIN server.resps :
              server.resps[i].kind # "SNAPSHOT" => server.resps[i].t \in Allocated(remote)
BY DEF ListenInv, ClientInv, Client, RemoteInv, RemoteCore, RemoteShape, ServerShape

(* A request that has arrived is about a target that was allocated.        *)
LEMMA RequestParts ==
  ASSUME ListenInv, RequestArrived
  PROVE  /\ remote.reqs # << >> /\ remote.stream = "Open"
         /\ NextRequest.t \in Allocated(remote)
<1>1. IsSequence(remote.reqs) /\ remote.reqs # << >> /\ remote.stream = "Open"
  BY RemoteParts DEF RequestArrived, RemoteShape
<1>2. NextRequest = remote.reqs[1] /\ 1 \in DOMAIN remote.reqs
  BY <1>1, TailFacts DEF NextRequest
<1> QED BY <1>1, <1>2, RemoteParts DEF RemoteShape

(* The queue of messages, with one more at its end.                        *)
LEMMA ShapeAfter ==
  ASSUME NEW r, NEW G, ServerShape(r, G), NEW H, DOMAIN H = ServerFields,
         DOMAIN H.accepted \subseteq Allocated(r),
         NEW m, m.kind # "SNAPSHOT" => m.t \in Allocated(r), LastWord(G.resps, H.resps, m)
  PROVE  ServerShape(r, H)
<1>1. \A i \in DOMAIN H.resps :
        (i \in DOMAIN G.resps /\ H.resps[i] = G.resps[i]) \/ H.resps[i] = m
  BY DEF LastWord
<1> QED BY <1>1 DEF ServerShape, LastWord

(* The backend answers a request to watch.                                 *)
LEMMA AcceptsKeep ==
  ASSUME ListenInv, ServerAccepts
  PROVE  ListenInv'
<1> DEFINE G == server
           H == server'
           h == NextRequest
           t == h.t
           m == TargetMessage("ADD", t, 0)
           l == TargetMessage("CURRENT", t, Now)
           T == Allocated(remote)
<1>1. /\ RequestArrived /\ h.op = "add"
      /\ remote' = [remote EXCEPT !.reqs = Tail(@)] /\ UNCHANGED <<engine, store>>
  BY DEF ServerAccepts
<1>2. /\ RemoteInv(remote, G) /\ ServerShape(remote, G) /\ t \in T
      /\ DOMAIN G = ServerFields /\ IsSequence(G.resps) /\ DOMAIN G.accepted \subseteq T
      /\ remote.reqs # << >> /\ remote.stream = "Open"
      /\ DOMAIN remote = RemoteFields
  BY <1>1, RemoteParts, RequestParts
<1>3. PICK body \in Answers(h) :
        H = [G EXCEPT !.accepted = With(@, t, [what |-> h.what, upto |-> Now]),
                      !.resps = @ \o <<m>> \o body \o <<l>>,
                      !.due = TRUE]
  BY DEF ServerAccepts
<1> DEFINE q == G.resps \o <<m>>
           p == q \o body
           o == p \o <<l>>
           entry == [what |-> h.what, upto |-> Now]
           acc == With(G.accepted, t, entry)
<1>4. DOMAIN H = ServerFields /\ H.resps = o /\ H.accepted = acc
  BY <1>2, <1>3 DEF ServerFields
<1> HIDE DEF H, entry
<1>5. DOMAIN acc = DOMAIN G.accepted \cup {t}
  <2>1. DOMAIN With(G.accepted, t, entry) = DOMAIN G.accepted \cup {t}
    BY DEF With
  <2> QED BY <2>1
<1> HIDE DEF acc
<1>6. LastWord(G.resps, q, m) /\ IsSequence(q)
  <2>1. LastWord(G.resps, q, m)
    BY <1>2, ConcatLast
  <2> QED BY <2>1 DEF LastWord
<1>7. Adds(G.resps, q, m)
  BY <1>2, <1>6, LastAdds
<1>8. SaysMore(q, o, T)
  <2>1. Chatter(body, T)
    BY <1>2, AnswersChatter
  <2>2. Chatter(<<l>>, T)
    <3>1. Remark(l, T)
      BY <1>2 DEF Remark, TargetMessage
    <3> QED BY <3>1, OneRemark
  <2>3. SaysMore(q, p, T)
    BY <1>6, <2>1, ChatterSays
  <2>4. IsSequence(p)
    BY <2>3 DEF SaysMore
  <2>5. SaysMore(p, o, T)
    BY <2>2, <2>4, ChatterSays
  <2> QED BY <2>3, <2>5, SaysMoreOn
<1>9. m.kind = "ADD" /\ m.t = t
  BY DEF TargetMessage
<1> HIDE DEF q, p, o, m, l, T
<1>10. ServerShape(remote, H)
  <2>1. \A i \in DOMAIN q :
          \/ i \in DOMAIN G.resps /\ q[i] = G.resps[i]
          \/ q[i] = m
    BY <1>6 DEF LastWord
  <2>2. \A i \in DOMAIN q : q[i].kind # "SNAPSHOT" => q[i].t \in T
    BY <1>2, <1>9, <2>1 DEF ServerShape, T
  <2>3. IsSequence(o) /\ \A i \in DOMAIN o : o[i].kind # "SNAPSHOT" => o[i].t \in T
    BY <1>8, <2>2 DEF SaysMore
  <2> QED BY <1>2, <1>4, <1>5, <2>3 DEF ServerShape, T
<1>11. Answered(G, H, h)
  <2>1. \A u : Told(m, {"ERROR"}, u) = 0 /\ Told(m, {"ADD", "REMOVE"}, u) = IF u = t THEN 1 ELSE 0
    BY <1>9 DEF Told
  <2>2. \A u : ResponsesTo(o, {"ERROR"}, u) = ResponsesTo(G.resps, {"ERROR"}, u)
    BY <1>7, <1>8, <2>1 DEF Adds, SaysMore
  <2>3. \A u : Cardinality(ResponsesTo(o, {"ADD", "REMOVE"}, u)) =
                 Cardinality(ResponsesTo(G.resps, {"ADD", "REMOVE"}, u)) +
                   (IF u = t THEN 1 ELSE 0)
    <3>1. \A u : ResponsesTo(o, {"ADD", "REMOVE"}, u) = ResponsesTo(q, {"ADD", "REMOVE"}, u)
      BY <1>8 DEF SaysMore
    <3>2. \A u : Cardinality(ResponsesTo(q, {"ADD", "REMOVE"}, u)) =
                   Cardinality(ResponsesTo(G.resps, {"ADD", "REMOVE"}, u)) +
                     Told(m, {"ADD", "REMOVE"}, u)
      BY <1>7, Zenon DEF Adds
    <3> QED BY <2>1, <3>1, <3>2
  <2>4. IsSequence(o)
    BY <1>8 DEF SaysMore
  <2> HIDE DEF h
  <2> QED BY <1>1, <1>4, <1>5, <2>2, <2>3, <2>4 DEF Answered
<1>12. RemoteInv([remote EXCEPT !.reqs = Tail(@)], H)
  BY <1>2, <1>10, <1>11, RequestKeeps DEF NextRequest
<1>13. /\ remote'.listens = remote.listens /\ remote'.online = remote.online
       /\ remote'.stream = remote.stream
  BY <1>1, <1>2 DEF RemoteFields
<1> QED BY <1>1, <1>2, <1>12, <1>13, BackendKeeps DEF H

(* The backend answers a request not to watch, or has nothing to answer.   *)
LEMMA RemovesKeep ==
  ASSUME ListenInv, ServerRemoves
  PROVE  ListenInv'
<1> DEFINE G == server
           H == server'
           h == NextRequest
           t == h.t
           m == TargetMessage("REMOVE", t, 0)
           T == Allocated(remote)
<1>1. /\ RequestArrived /\ h.op = "remove"
      /\ remote' = [remote EXCEPT !.reqs = Tail(@)] /\ UNCHANGED <<engine, store>>
      /\ H = IF t \in DOMAIN G.accepted
               THEN [G EXCEPT !.accepted = Without(@, t), !.resps = Append(@, m)]
               ELSE G
  BY DEF ServerRemoves
<1>2. /\ RemoteInv(remote, G) /\ ServerShape(remote, G) /\ t \in T
      /\ DOMAIN G = ServerFields /\ IsSequence(G.resps) /\ DOMAIN G.accepted \subseteq T
      /\ remote.reqs # << >> /\ remote.stream = "Open"
      /\ DOMAIN remote = RemoteFields
  BY <1>1, RemoteParts, RequestParts
<1>3. ServerShape(remote, H) /\ Answered(G, H, h)
  <2>1. CASE t \notin DOMAIN G.accepted
    <3>1. H = G
      BY <1>1, <2>1
    <3>2. \A u : Cardinality(ResponsesTo(G.resps, {"ADD", "REMOVE"}, u)) \in Nat
      BY <1>2, ResponsesFinite
    <3> HIDE DEF H, h
    <3> QED BY <1>1, <1>2, <2>1, <3>1, <3>2 DEF Answered
  <2>2. CASE t \in DOMAIN G.accepted
    <3> DEFINE acc == Without(G.accepted, t)
               p == Append(G.resps, m)
    <3>1. DOMAIN H = ServerFields /\ H.resps = p /\ H.accepted = acc
      BY <1>1, <1>2, <2>2 DEF ServerFields
    <3>2. DOMAIN acc = DOMAIN G.accepted \ {t}
      BY WithoutFacts
    <3>3. m.kind = "REMOVE" /\ m.t = t
      BY DEF TargetMessage
    <3> HIDE DEF H, acc, m
    <3>4. LastWord(G.resps, p, m) /\ IsSequence(p)
      <4>1. LastWord(G.resps, p, m)
        BY <1>2, AppendedLast
      <4> QED BY <4>1 DEF LastWord
    <3>5. Adds(G.resps, p, m)
      BY <1>2, <3>4, LastAdds
    <3> HIDE DEF p
    <3>6. ServerShape(remote, H)
      BY <1>2, <3>1, <3>2, <3>3, <3>4, ShapeAfter
    <3>7. \A u : Told(m, {"ERROR"}, u) = 0 /\ Told(m, {"ADD", "REMOVE"}, u) = IF u = t THEN 1 ELSE 0
      BY <3>3 DEF Told
    <3>8. \A u : ResponsesTo(p, {"ERROR"}, u) = ResponsesTo(G.resps, {"ERROR"}, u)
      BY <3>5, <3>7 DEF Adds
    <3>9. \A u : Cardinality(ResponsesTo(p, {"ADD", "REMOVE"}, u)) =
                   Cardinality(ResponsesTo(G.resps, {"ADD", "REMOVE"}, u)) +
                     Told(m, {"ADD", "REMOVE"}, u)
      BY <3>5, Zenon DEF Adds
    <3> HIDE DEF h
    <3>10. \A u : ResponsesTo(H.resps, {"ERROR"}, u) = {}
                    <=> ResponsesTo(G.resps, {"ERROR"}, u) = {}
      BY <3>1, <3>8
    <3>11. \A u : Cardinality(ResponsesTo(H.resps, {"ADD", "REMOVE"}, u)) =
                    Cardinality(ResponsesTo(G.resps, {"ADD", "REMOVE"}, u)) +
                      (IF u = h.t /\ (h.op = "add" \/ h.t \in DOMAIN G.accepted) THEN 1 ELSE 0)
      BY <2>2, <3>1, <3>7, <3>9
    <3>12. /\ DOMAIN H = ServerFields /\ IsSequence(H.resps)
           /\ \A u : u # h.t => (u \in DOMAIN H.accepted <=> u \in DOMAIN G.accepted)
      BY <3>1, <3>2, <3>4
    <3> QED BY <1>1, <3>6, <3>10, <3>11, <3>12 DEF Answered
  <2> QED BY <2>1, <2>2
<1> HIDE DEF H
<1>4. RemoteInv([remote EXCEPT !.reqs = Tail(@)], H)
  BY <1>2, <1>3, RequestKeeps DEF NextRequest
<1>5. /\ remote'.listens = remote.listens /\ remote'.online = remote.online
      /\ remote'.stream = remote.stream
  BY <1>1, <1>2 DEF RemoteFields
<1> QED BY <1>1, <1>2, <1>4, <1>5, BackendKeeps DEF H

(* What a global snapshot says of each target.                             *)
Speak(ms, t, bare) ==
  LET a == server.accepted[t]
  IN  ms \o (Updates(t, a.what, a.upto) \o Departures(t, a.what, a.upto, bare))

SpokenSoFar(ms, i, bare) == Chatter(ms, Allocated(remote))

Speaking == INSTANCE FoldTheorems WITH Op <- Speak, Inv <- SpokenSoFar

AllSpoken(bare) ==
  FoldLeft(LAMBDA ms, t :
             ms \o (Updates(t, server.accepted[t].what, server.accepted[t].upto) \o
                      Departures(t, server.accepted[t].what, server.accepted[t].upto, bare)),
           << >>, Ascending(DOMAIN server.accepted))

(* A global snapshot answers no request.                                   *)
LEMMA AllSpokenChatter ==
  ASSUME RemoteShape(remote), DOMAIN server.accepted \subseteq Allocated(remote), NEW bare
  PROVE  Chatter(AllSpoken(bare), Allocated(remote))
<1> DEFINE D == DOMAIN server.accepted
           w == Ascending(D)
           T == Allocated(remote)
           d == AllSpoken(bare)
<1>1. IsFiniteSet(D) /\ D \in SUBSET Nat
  <2>1. remote.nextId - 1 \in Int
    BY DEF RemoteShape
  <2>2. IsFiniteSet(T) /\ T \subseteq Nat
    BY <2>1, FS_Interval DEF Allocated
  <2> QED BY <2>2, FS_Subset
<1>2. w \in Seq(D)
  BY <1>1, AscendingFacts
<1>3. d = Speaking!Run(<< >>, w, bare)
  BY DEF AllSpoken, Speak, FoldLeft, MapThenFoldSet, Max, Speaking!Run,
         Speaking!Last
<1> HIDE DEF w, d
<1>4. SpokenSoFar(<< >>, 0, bare)
  BY NoRemark DEF SpokenSoFar
<1>5. ASSUME NEW i \in 1 .. Len(w), NEW ms, SpokenSoFar(ms, i - 1, bare)
      PROVE  SpokenSoFar(Speak(ms, w[i], bare), i, bare)
  <2>1. w[i] \in T
    BY <1>2
  <2> DEFINE t == w[i]
             a == server.accepted[t]
             new == Updates(t, a.what, a.upto)
             gone == Departures(t, a.what, a.upto, bare)
  <2>2. Chatter(new, T) /\ Chatter(gone, T)
    BY <2>1, UpdatesChatter, DeparturesChatter
  <2>3. Chatter(ms, T)
    BY <1>5 DEF SpokenSoFar
  <2>4. Speak(ms, t, bare) = ms \o (new \o gone)
    BY DEF Speak
  <2> HIDE DEF new, gone, T
  <2>5. Chatter(new \o gone, T)
    BY <2>2, ChatterConcat
  <2>6. Chatter(ms \o (new \o gone), T)
    BY <2>3, <2>5, ChatterConcat
  <2> QED BY <2>4, <2>6 DEF SpokenSoFar, T
<1>6. SpokenSoFar(d, Len(w), bare)
  BY <1>2, <1>3, <1>4, <1>5, Speaking!FoldKeeps
<1> QED BY <1>6 DEF SpokenSoFar, d

(* The backend brings all targets up to date.                              *)
LEMMA SnapshotSent ==
  ASSUME ListenInv, ServerSnapshot
  PROVE  ListenInv'
<1> DEFINE G == server
           H == server'
           T == Allocated(remote)
           m == [kind |-> "SNAPSHOT", version |-> Now]
           acc == [t \in DOMAIN G.accepted |-> [G.accepted[t] EXCEPT !.upto = Now]]
<1>1. /\ RemoteInv(remote, G) /\ RemoteShape(remote) /\ DOMAIN G = ServerFields
      /\ IsSequence(G.resps) /\ DOMAIN G.accepted \subseteq T
  BY RemoteParts
<1>2. PICK bare \in BOOLEAN :
        H = [G EXCEPT !.accepted = [t \in DOMAIN @ |-> [@[t] EXCEPT !.upto = Now]],
                      !.resps = @ \o AllSpoken(bare) \o <<m>>,
                      !.due = FALSE]
  BY DEF ServerSnapshot, AllSpoken
<1>3. UNCHANGED <<remote, engine, store>> /\ G.accepted # << >>
  BY DEF ServerSnapshot, SnapshotIsDue
<1> DEFINE x == AllSpoken(bare)
           p == G.resps \o x
           o == p \o <<m>>
<1>4. DOMAIN H = ServerFields /\ H.resps = o /\ H.accepted = acc
  BY <1>1, <1>2 DEF ServerFields
<1>5. DOMAIN acc = DOMAIN G.accepted
  OBVIOUS
<1> HIDE DEF H, acc
<1>6. SaysMore(G.resps, o, T)
  <2>1. Chatter(x, T)
    BY <1>1, AllSpokenChatter
  <2>2. Chatter(<<m>>, T)
    BY OneRemark DEF Remark
  <2> HIDE DEF x
  <2>3. SaysMore(G.resps, p, T)
    BY <1>1, <2>1, ChatterSays
  <2>4. IsSequence(p)
    BY <2>3 DEF SaysMore
  <2>5. SaysMore(p, o, T)
    BY <2>2, <2>4, ChatterSays
  <2> QED BY <2>3, <2>5, SaysMoreOn
<1> HIDE DEF x, p, o
<1>7. RemoteInv(remote, H)
  BY <1>1, <1>4, <1>5, <1>6, SaysMoreKeeps
<1>8. remote.stream = "Open"
  BY <1>3 DEF ListenInv
<1> QED BY <1>3, <1>7, <1>8, BackendKeeps DEF H

(* A target with an error on its way is past all promises.                 *)
LEMMA RejectsKeep ==
  ASSUME ListenInv, NEW t, ServerRejects(t)
  PROVE  ListenInv'
<1> DEFINE G == server
           H == server'
           T == Allocated(remote)
           m == TargetMessage("ERROR", t, 0)
           acc == Without(G.accepted, t)
           p == Append(G.resps, m)
<1>1. /\ RemoteInv(remote, G) /\ ServerShape(remote, G) /\ DOMAIN G = ServerFields
      /\ IsSequence(G.resps) /\ DOMAIN G.accepted \subseteq T
  BY RemoteParts
<1>2. /\ UNCHANGED <<remote, engine, store>> /\ t \in DOMAIN G.accepted
      /\ H = [G EXCEPT !.accepted = acc, !.resps = p]
  BY DEF ServerRejects
<1>3. DOMAIN H = ServerFields /\ H.resps = p /\ H.accepted = acc
  BY <1>1, <1>2 DEF ServerFields
<1>4. DOMAIN acc = DOMAIN G.accepted \ {t}
  BY WithoutFacts
<1>5. m.kind = "ERROR" /\ m.t = t
  BY DEF TargetMessage
<1> HIDE DEF H, acc, m
<1>6. LastWord(G.resps, p, m) /\ IsSequence(p)
  <2>1. LastWord(G.resps, p, m)
    BY <1>1, AppendedLast
  <2> QED BY <2>1 DEF LastWord
<1>7. Adds(G.resps, p, m)
  BY <1>1, <1>6, LastAdds
<1> HIDE DEF p
<1>8. ServerShape(remote, H)
  <2>1. DOMAIN H.accepted \subseteq T /\ t \in T
    BY <1>1, <1>2, <1>3, <1>4
  <2>2. LastWord(G.resps, H.resps, m) /\ m.t \in T
    BY <1>3, <1>5, <1>6, <2>1
  <2> QED BY <1>1, <1>3, <2>1, <2>2, ShapeAfter
<1>9. \A u : Told(m, {"ADD", "REMOVE"}, u) = 0 /\ Told(m, {"ERROR"}, u) = IF u = t THEN 1 ELSE 0
  BY <1>5 DEF Told
<1>10. \A u : ResponsesTo(H.resps, {"ADD", "REMOVE"}, u) = ResponsesTo(G.resps, {"ADD", "REMOVE"}, u)
  BY <1>3, <1>7, <1>9 DEF Adds
<1>11. \A u : u # t => ResponsesTo(H.resps, {"ERROR"}, u) = ResponsesTo(G.resps, {"ERROR"}, u)
  BY <1>3, <1>7, <1>9 DEF Adds
<1>12. ResponsesTo(H.resps, {"ERROR"}, t) # {}
  BY <1>3, <1>7, <1>9 DEF Adds
<1>13. ASSUME NEW u, Conversation(remote, G, u)
       PROVE  Conversation(remote, H, u)
  <2>1. CASE u = t
    BY <1>12, <2>1 DEF Conversation
  <2>2. CASE u # t
    <3>1. u \in DOMAIN H.accepted <=> u \in DOMAIN G.accepted
      BY <1>3, <1>4, <2>2
    <3>2. Counted(remote, G, u) => Counted(remote, H, u)
      BY <1>10 DEF Counted
    <3>3. Alternates(remote, G, u) => Alternates(remote, H, u)
      BY <3>1 DEF Alternates
    <3>4. EndsAccepted(remote, G, u) => EndsAccepted(remote, H, u)
      BY <3>1 DEF EndsAccepted
    <3> QED BY <1>11, <1>13, <2>2, <3>2, <3>3, <3>4 DEF Conversation
  <2> QED BY <2>1, <2>2
<1>14. RemoteInv(remote, H)
  BY <1>1, <1>8, <1>13 DEF RemoteInv, RemoteCore
<1>15. remote.stream = "Open"
  <2>1. G.accepted # << >>
    BY <1>2, EmptyFunction
  <2> QED BY <2>1 DEF ListenInv
<1> QED BY <1>2, <1>14, <1>15, BackendKeeps DEF H

(* The client as it starts.                                                *)
FreshRemote(n) ==
  [listens |-> << >>, agg |-> NoUpdate, stream |-> "Stopped",
   idle |-> FALSE, reqs |-> << >>, nextId |-> n,
   orphan |-> FALSE, strays |-> 0,
   online |-> "Unknown", failures |-> 0, timer |-> FALSE, causes |-> {}]

FreshEngine == [views |-> << >>, active |-> << >>, enqueued |-> << >>, refs |-> {}]

(* It is between two tasks, and nobody listens.                            *)
LEMMA FreshSettled ==
  ASSUME NEW c, NEW G, NEW n \in Nat \ {0}, DOMAIN c = ClientFields,
         c.remote = FreshRemote(n), c.engine = FreshEngine, DOMAIN c.store = StoreFields,
         DOMAIN G = ServerFields, G.accepted = << >>, G.resps = << >>
  PROVE  Settled(c, G) /\ Quiesced(c, G)
<1> DEFINE r == FreshRemote(n)
           e == FreshEngine
<1>1. /\ IsFunction(r) /\ DOMAIN r = RemoteFields /\ r.listens = << >> /\ r.stream = "Stopped"
      /\ r.idle = FALSE /\ r.reqs = << >> /\ r.nextId = n /\ r.online = "Unknown"
      /\ r.failures = 0 /\ r.timer = FALSE /\ r.orphan = FALSE /\ r.strays = 0
      /\ r.causes = {}
  BY DEF FreshRemote, RemoteFields, IsFunction
<1>2. /\ IsFunction(e) /\ DOMAIN e = EngineFields /\ e.views = << >> /\ e.active = << >>
      /\ e.enqueued = << >> /\ e.refs = {}
  BY DEF FreshEngine, EngineFields, IsFunction
<1> HIDE DEF r, e
<1>3. DOMAIN r.listens = {} /\ DOMAIN r.reqs = {} /\ IsFunction(r.listens) /\ IsSequence(r.reqs)
  BY <1>1, EmptyFunction
<1>4. r.idle \in BOOLEAN /\ r.timer \in BOOLEAN
  BY <1>1, Zenon
<1>5. /\ r.stream \in {"Stopped", "Starting", "Open"}
       /\ r.online \in {"Unknown", "Online", "Offline"}
       /\ r.nextId \in Nat \ {0}
  BY <1>1, Zenon
<1>6. r.failures \in 0 .. MaxWatchStreamFailures
  BY <1>1 DEF MaxWatchStreamFailures
<1>7. RemoteShape(r)
  BY <1>1, <1>3, <1>4, <1>5, <1>6 DEF RemoteShape
<1>8. ServerShape(r, G)
  BY EmptyFunction DEF ServerShape
<1>9. RemoteInv(r, G)
  BY <1>1, <1>7, <1>8 DEF RemoteInv, RemoteCore, IdleSound, OnlineSound
<1>10. DOMAIN e.views = {} /\ DOMAIN e.active = {} /\ Watched(r) = {}
  BY <1>1, <1>2, EmptyFunction DEF Watched
<1>11. e.enqueued \in Seq(Keys) /\ Range(e.enqueued) = {} /\ IsInjective(e.enqueued)
  BY <1>2, EmptyFunction DEF Range, IsInjective
<1>12. EngineShape(e)
  BY <1>2, <1>10, <1>11, EmptyFunction DEF EngineShape
<1>13. Cardinality(DOMAIN e.active) = 0
  BY <1>10, FS_EmptySet, Zenon
<1>14. Limbo(e, {})
  BY <1>10, <1>11, <1>13, LimboLimit DEF Limbo
<1>15. RefsMatch(e) /\ Pumped(e)
  BY <1>2, <1>10 DEF RefsMatch, Pumped
<1>16. OfflineKnown(c)
  BY <1>1 DEF OfflineKnown, r
<1> QED BY <1>9, <1>10, <1>12, <1>14, <1>15, <1>16 DEF Settled, ClientInv, Quiesced, r, e

(* The initial state.                                                      *)
LEMMA InitListen ==
  ASSUME Init
  PROVE  ListenInv
<1>1. Client.remote = FreshRemote(1) /\ Client.engine = FreshEngine
  BY ClientDomain DEF Init, FreshRemote, FreshEngine
<1>2. DOMAIN Client.store = StoreFields
  BY ClientDomain DEF Init, StoreFields
<1>3. DOMAIN server = ServerFields /\ server.accepted = << >> /\ server.resps = << >>
  BY DEF Init, ServerFields
<1>4. DOMAIN Client = ClientFields
  BY ClientDomain
<1>5. Settled(Client, server) /\ Quiesced(Client, server)
  BY <1>1, <1>2, <1>3, <1>4, FreshSettled
<1> QED BY <1>5, InvariantParts

(* The process dies and starts again.                                      *)
LEMMA RestartKeeps ==
  ASSUME ListenInv, Restart
  PROVE  ListenInv'
<1> DEFINE d == [remote |-> remote', engine |-> engine', store |-> store']
           H == server'
<1>1. /\ DOMAIN server = ServerFields /\ DOMAIN store = StoreFields
      /\ remote.nextId \in Nat \ {0}
  BY RemoteParts DEF ListenInv, ClientInv, Client, RemoteShape
<1>2. DOMAIN H = ServerFields /\ H.accepted = << >> /\ H.resps = << >>
  BY <1>1 DEF Restart, ServerFields
<1>3. DOMAIN store' = StoreFields
  BY <1>1 DEF Restart, StoreFields
<1>4. remote' = FreshRemote(remote.nextId) /\ engine' = FreshEngine
  BY DEF Restart, FreshRemote, FreshEngine
<1> HIDE DEF H
<1>5. /\ DOMAIN d = ClientFields /\ d.remote = FreshRemote(remote.nextId)
      /\ d.engine = FreshEngine /\ DOMAIN d.store = StoreFields
  BY <1>3, <1>4 DEF ClientFields
<1>6. Become(d)
  BY DEF Become
<1> HIDE DEF d
<1>7. Settled(d, H) /\ Quiesced(d, H)
  BY <1>1, <1>2, <1>5, FreshSettled
<1> QED BY <1>6, <1>7, BecomeKeeps DEF H

-----------------------------------------------------------------------------
(* The network and the stream.                                             *)

(* disableNetwork.                                                         *)
LEMMA DisableNetworkKeeps ==
  ASSUME ListenInv, DisableNetwork
  PROVE  ListenInv'
<1> DEFINE b == StreamClosed(Client)
           causes == b.remote.causes \cup {"UserDisabled"}
           d == SetOnline([b EXCEPT !.remote.causes = causes], "Offline")
<1>1. Finish(d)
  BY DEF DisableNetwork
<1>2. Settled(d, server)
  BY InvariantParts, DisableKeeps
<1> HIDE DEF d
<1> QED BY <1>1, <1>2, FinishKeeps

(* enableNetwork, and the recovery from a failed transaction.              *)
LEMMA EnableNetworkKeeps ==
  ASSUME ~Reenables, ListenInv, EnableNetwork \/ RecoverNetwork
  PROVE  ListenInv'
<1>0. OnlineSound(remote)
  BY RemoteParts DEF RemoteInv
<1>1. Settled(Client, server) /\ Client.remote.stream = "Stopped"
  <2>1. remote.stream = "Stopped"
    BY <1>0 DEF EnableNetwork, RecoverNetwork, OnlineSound
  <2> QED BY <2>1, InvariantParts, ClientDomain
<1>2. PICK causes : Finish(EnableNetworkInternal([Client EXCEPT !.remote.causes = causes]))
  BY DEF EnableNetwork, RecoverNetwork
<1> DEFINE d == EnableNetworkInternal([Client EXCEPT !.remote.causes = causes])
<1>3. Settled(d, server)
  BY <1>1, EnableKeeps
<1> HIDE DEF d
<1> QED BY <1>2, <1>3, FinishKeeps DEF d

(* A change of connectivity.                                               *)
LEMMA RestartNetworkKeeps ==
  ASSUME ListenInv, RestartNetwork
  PROVE  ListenInv'
<1> DEFINE b == SetOnline(StreamClosed(Client), "Unknown")
           d == EnableNetworkInternal(b)
<1>1. Finish(d)
  BY DEF RestartNetwork
<1>2. Settled(b, server) /\ b.remote.stream = "Stopped"
  BY InvariantParts, CloseKeeps
<1> HIDE DEF b
<1>3. Settled(d, server)
  BY <1>2, EnableSettled
<1> HIDE DEF d
<1> QED BY <1>1, <1>3, FinishKeeps

(* The stream opens.                                                       *)
LEMMA StreamOpenKeeps ==
  ASSUME ListenInv, OnWatchStreamOpen
  PROVE  ListenInv'
<1> DEFINE d == SendAllWatchRequests([Client EXCEPT !.remote.stream = "Open"])
<1>1. /\ Become(d) /\ server' = server
      /\ server.accepted = << >> /\ server.resps = << >>
      /\ Client.remote.stream = "Starting"
  BY ClientDomain DEF OnWatchStreamOpen, Task, ListenInv
<1>2. Settled(d, server)
  BY <1>1, InvariantParts, OpenKeeps
<1> HIDE DEF d
<1>3. Quiesced(d, server)
  BY <1>1 DEF Quiesced
<1> QED BY <1>1, <1>2, <1>3, BecomeKeeps

(* The stream says that it is connected.                                   *)
LEMMA ConnectedKeeps ==
  ASSUME ListenInv, OnWatchStreamConnected
  PROVE  ListenInv'
<1> DEFINE d == SetOnline(Client, "Online")
<1>1. /\ Become(d) /\ server' = server /\ Client.remote.stream = "Open"
  BY ClientDomain DEF OnWatchStreamConnected, Task
<1>2. Reachable(Client, d, server)
  BY <1>1, InvariantParts, ReachedKeeps
<1> HIDE DEF d
<1>3. Settled(d, server) /\ Quiesced(d, server)
  BY <1>2 DEF Reachable, Quiesced
<1> QED BY <1>1, <1>3, BecomeKeeps

(* The stream closes with an error.                                        *)
LEMMA StreamCloseKeeps ==
  ASSUME ListenInv, OnWatchStreamClose
  PROVE  ListenInv'
<1> DEFINE b == StreamClosed(Client)
           d == IF ShouldStartWatchStream(b)
                  THEN StartWatchStream(HandleWatchStreamFailure(b))
                  ELSE SetOnline(b, "Unknown")
<1>1. Finish(d)
  BY DEF OnWatchStreamClose
<1>2. Settled(Client, server)
  BY InvariantParts
<1>3. ShouldStartWatchStream(b) =>
        Settled(StartWatchStream(HandleWatchStreamFailure(b)), server)
  BY <1>2, FailureKeeps
<1>4. Settled(SetOnline(b, "Unknown"), server)
  BY <1>2, CloseKeeps
<1>5. Settled(d, server)
  BY <1>3, <1>4
<1> HIDE DEF d
<1> QED BY <1>1, <1>5, FinishKeeps

(* The idle timer fires.                                                   *)
LEMMA IdleTimeoutKeeps ==
  ASSUME ListenInv, IdleTimeout
  PROVE  ListenInv'
<1> DEFINE d == SetOnline(StreamClosed(Client), "Unknown")
<1>1. Finish(d)
  BY DEF IdleTimeout
<1>2. Settled(d, server)
  BY InvariantParts, CloseKeeps
<1> HIDE DEF d
<1> QED BY <1>1, <1>2, FinishKeeps

(* The online state's timer fires.                                         *)
LEMMA OnlineTimeoutKeeps ==
  ASSUME ListenInv, OnlineStateTimeout
  PROVE  ListenInv'
<1> DEFINE c == Client
           m == [c EXCEPT !.remote.timer = FALSE, !.remote.strays = remote.strays]
           s == [c.remote EXCEPT !.timer = FALSE, !.strays = remote.strays]
           d == SetAndBroadcast(m, "Offline")
<1>0. remote.strays = 0 /\ c.remote = remote
  BY RemoteParts, ClientDomain DEF RemoteShape
<1>1. Become(d) /\ server' = server
  BY <1>0 DEF OnlineStateTimeout, Task
<1>2. Settled(c, server) /\ Quiesced(c, server)
  BY InvariantParts
<1> HIDE DEF c
<1>3. /\ Basic(c, server) /\ RemoteCore(c.remote, server) /\ DOMAIN c = ClientFields
      /\ DOMAIN c.engine = EngineFields /\ IsFunction(c.remote)
      /\ DOMAIN c.remote = RemoteFields /\ RemoteShape(c.remote)
  BY <1>2, SettledBasic DEF Basic, RemoteCore
<1>4. /\ DOMAIN m = ClientFields /\ m.engine = c.engine /\ m.store = c.store /\ m.remote = s
  BY <1>3 DEF ClientFields, RemoteFields
<1>5. /\ IsFunction(s) /\ DOMAIN s = RemoteFields /\ s.timer = FALSE
      /\ s.listens = c.remote.listens /\ s.agg = c.remote.agg /\ s.stream = c.remote.stream
      /\ s.idle = c.remote.idle /\ s.reqs = c.remote.reqs /\ s.nextId = c.remote.nextId
      /\ s.failures = c.remote.failures /\ s.online = c.remote.online
      /\ s.orphan = c.remote.orphan /\ s.strays = c.remote.strays /\ s.causes = c.remote.causes
  BY <1>0, <1>3 DEF IsFunction, RemoteFields
<1> HIDE DEF m, s
<1>6. WentOffline(m, d) /\ d.remote = [s EXCEPT !.online = "Offline"]
  BY <1>3, <1>4, <1>5, BroadcastOffline
<1> HIDE DEF d
<1> DEFINE u == [s EXCEPT !.online = "Offline"]
<1>7. /\ IsFunction(u) /\ DOMAIN u = RemoteFields /\ u.timer = FALSE /\ u.online = "Offline"
      /\ u.listens = s.listens /\ u.agg = s.agg /\ u.stream = s.stream
      /\ u.idle = s.idle /\ u.reqs = s.reqs /\ u.nextId = s.nextId
      /\ u.failures = s.failures
      /\ u.orphan = s.orphan /\ u.strays = s.strays /\ u.causes = s.causes
  BY <1>5 DEF IsFunction, RemoteFields
<1> HIDE DEF u
<1>8. SameCore(c.remote, u)
  BY <1>3, <1>5, <1>7 DEF SameCore, RemoteShape
<1>9. RemoteInv(u, server)
  <2>1. OnlineSound(c.remote)
    BY <1>2, SettledBasic
  <2> QED BY <1>3, <1>5, <1>7, <1>8, <2>1, CoreSame DEF RemoteInv, OnlineSound
<1>10. WentOffline(c, d) /\ d.remote = u
  BY <1>4, <1>5, <1>6 DEF WentOffline, u
<1>11. Watched(d.remote) = Watched(c.remote)
  BY <1>5, <1>7, <1>10 DEF Watched
<1>12. Settled(d, server)
  BY <1>2, <1>9, <1>10, <1>11, OfflineKeeps
<1>13. Quiesced(d, server)
  BY <1>2, <1>5, <1>7, <1>10 DEF Quiesced
<1> QED BY <1>1, <1>12, <1>13, BecomeKeeps

-----------------------------------------------------------------------------
(* The application.                                                        *)

(* A view that nobody told anything shows what the cache has, and doubts   *)
(* no document.                                                            *)
FreshView(v) == ViewSound(v) /\ v.limbo = {} /\ v.current = FALSE

(* The view of a query that is listened to for the first time is one.      *)
LEMMA FreshViews ==
  ASSUME NEW keys, NEW docs, NEW token
  PROVE  LET told == [token |-> token, current |-> FALSE,
                      added |-> {}, modified |-> {}, removed |-> {}]
         IN  FreshView(V!ApplyChanges(V!NewView(keys), docs, TRUE, told, FALSE).view)
<1> DEFINE told == [token |-> token, current |-> FALSE,
                    added |-> {}, modified |-> {}, removed |-> {}]
           v == V!NewView(keys)
           r == V!ApplyChanges(v, docs, TRUE, told, FALSE)
<1>1. DOMAIN v = ViewFields /\ v.limbo = {} /\ v.current = FALSE
  BY DEF V!NewView, ViewFields
<1>2. told.current = FALSE
  OBVIOUS
<1> HIDE DEF told, v
<1>3. v.limbo \subseteq Keys /\ v.current \in BOOLEAN /\ told.current \in BOOLEAN
  BY <1>1, <1>2, Zenon
<1>4. Refreshed(v, docs, told, r)
  BY <1>1, <1>3, ApplyChangesFacts
<1> HIDE DEF r
<1>5. ViewSound(r.view) /\ r.view.current = FALSE
  BY <1>1, <1>2, <1>4, Zenon DEF Refreshed
<1>6. r.view.limbo = v.limbo
  BY <1>4, <1>5 DEF Refreshed
<1> QED BY <1>1, <1>5, <1>6 DEF FreshView, r, v, told

(* The client learns of a query, before RemoteStore listens to it.         *)
Learnt(c, d, G, q) ==
  /\ ClientInv(d, G, {}) /\ RefsMatch(d.engine) /\ Pumped(d.engine)
  /\ d.remote = c.remote /\ d.engine.active = c.engine.active
  /\ DOMAIN d.engine.views = DOMAIN c.engine.views \cup {q}

(* A view that doubts nothing and is not current disturbs no table.        *)
LEMMA LearnKeeps ==
  ASSUME NEW c, NEW G, Settled(c, G), NEW q \in Queries, q \notin DOMAIN c.engine.views,
         NEW view, FreshView(view), NEW st, DOMAIN st = StoreFields,
         NEW d, d = [c EXCEPT !.store = st, !.engine.views = With(@, q, view)]
  PROVE  Learnt(c, d, G, q)
<1> DEFINE e == c.engine
           views == With(e.views, q, view)
           f == [e EXCEPT !.views = views]
<1>1. /\ DOMAIN c = ClientFields /\ IsFunction(e) /\ DOMAIN e = EngineFields
      /\ EngineShape(e) /\ RefsMatch(e) /\ Pumped(e) /\ Limbo(e, {}) /\ OfflineKnown(c)
      /\ RemoteInv(c.remote, G)
  BY DEF Settled, ClientInv, EngineShape
<1> HIDE DEF e
<1>2. /\ DOMAIN d = ClientFields /\ d.remote = c.remote /\ d.store = st /\ d.engine = f
  BY <1>1 DEF ClientFields, e
<1>3. /\ IsFunction(views) /\ DOMAIN views = DOMAIN e.views \cup {q}
      /\ views[q] = view /\ \A p \in DOMAIN e.views : p # q => views[p] = e.views[p]
  BY DEF With, IsFunction
<1> HIDE DEF views
<1>4. /\ IsFunction(f) /\ DOMAIN f = EngineFields /\ f.views = views
      /\ f.active = e.active /\ f.enqueued = e.enqueued /\ f.refs = e.refs
  BY <1>1 DEF EngineFields, IsFunction
<1> HIDE DEF f
<1>5. ViewSound(view) /\ view.limbo = {} /\ view.current = FALSE
  BY DEF FreshView
<1>6. EngineShape(f)
  BY <1>1, <1>3, <1>4, <1>5 DEF EngineShape
<1>7. Limbo(f, {})
  BY <1>1, <1>4 DEF Limbo, Referenced
<1>8. RefsMatch(f)
  BY <1>1, <1>3, <1>4, <1>5 DEF RefsMatch, e
<1>9. Pumped(f)
  BY <1>1, <1>4 DEF Pumped
<1>10. OfflineKnown(d)
  <2> SUFFICES ASSUME d.remote.online = "Offline", NEW p \in DOMAIN d.engine.views
               PROVE  ~d.engine.views[p].current
    BY DEF OfflineKnown
  <2>1. CASE p = q
    BY <1>2, <1>3, <1>4, <1>5, <2>1
  <2>2. CASE p # q
    <3>1. p \in DOMAIN e.views /\ d.engine.views[p] = e.views[p]
      BY <1>2, <1>3, <1>4, <2>2
    <3> QED BY <1>1, <1>2, <3>1 DEF OfflineKnown, e
  <2> QED BY <2>1, <2>2
<1> QED BY <1>1, <1>2, <1>3, <1>4, <1>6, <1>7, <1>8, <1>9, <1>10
        DEF Learnt, ClientInv, e

(* A listen to a query that the client has learnt of.                      *)
LEMMA ListenSettles ==
  ASSUME NEW c, NEW G, Settled(c, G), NEW q, NEW b, Learnt(c, b, G, q), NEW target
  PROVE  Settled(RemoteStoreListen(b, q, target), G)
<1> DEFINE d == RemoteStoreListen(b, q, target)
<1>1. Basic(b, G) /\ OnlineSound(b.remote)
  BY DEF Learnt, ClientInv, Basic, RemoteInv
<1>2. RemoteMoves(b, d, G, {}) /\ Watched(d.remote) = Watched(b.remote) \cup {q}
  BY <1>1, ListenKeeps
<1> HIDE DEF d
<1>3. Kept(b, d) /\ RemoteInv(d.remote, G) /\ Quiet(b.remote, d.remote)
  BY <1>2 DEF RemoteMoves
<1>4. Watched(d.remote) = DOMAIN d.engine.active \cup DOMAIN d.engine.views
  BY <1>2, <1>3 DEF Learnt, Settled, Kept
<1>5. OfflineKnown(d)
  BY <1>3 DEF Learnt, ClientInv, Kept, Quiet, OfflineKnown
<1>6. ClientInv(b, G, {}) /\ RefsMatch(b.engine) /\ Pumped(b.engine)
  BY DEF Learnt
<1>7. ClientInv(d, G, {})
  BY <1>3, <1>5, <1>6 DEF ClientInv, Kept
<1>8. RefsMatch(d.engine) /\ Pumped(d.engine)
  BY <1>3, <1>6 DEF Kept
<1> QED BY <1>4, <1>7, <1>8 DEF Settled, d

(* syncEngineListen.                                                       *)
LEMMA ListenStep ==
  ASSUME ListenInv, NEW q \in Queries, Listen(q)
  PROVE  ListenInv'
<1> DEFINE cached == store.targets[q]
           newer  == \/ q \notin DOMAIN store.mem
                     \/ cached.ver > store.mem[q].ver
           mem    == IF newer THEN With(store.mem, q, cached) ELSE store.mem
           st     == [store EXCEPT !.mem = mem]
           view   == V!ApplyChanges(V!NewView(st.keysOf[q]), ExecuteQuery(st, q), TRUE,
                       [token |-> cached.token, current |-> FALSE,
                        added |-> {}, modified |-> {}, removed |-> {}], FALSE).view
           b      == [Client EXCEPT !.store = st, !.engine.views = With(@, q, view)]
           d      == RemoteStoreListen(b, q, cached)
<1>1. q \notin DOMAIN Client.engine.views /\ Finish(d)
  BY ClientDomain DEF Listen
<1>2. FreshView(view)
  BY FreshViews
<1>3. DOMAIN st = StoreFields
  BY ClientDomain DEF ListenInv, ClientInv, StoreFields
<1> HIDE DEF view, st
<1>4. Settled(Client, server)
  BY InvariantParts
<1>5. Learnt(Client, b, server, q)
  BY <1>1, <1>2, <1>3, <1>4, LearnKeeps
<1> HIDE DEF b
<1>6. Settled(d, server)
  BY <1>4, <1>5, ListenSettles
<1> HIDE DEF d
<1> QED BY <1>1, <1>6, FinishKeeps

(* A query that is released, and not listened to any more.                 *)
LEMMA UnlistenSettles ==
  ASSUME NEW c, NEW G, Settled(c, G), NEW q \in DOMAIN c.engine.views
  PROVE  Settled(RemoveAndCleanupTarget(RemoteStoreUnlisten(c, q), q), G)
<1> DEFINE b == RemoteStoreUnlisten(c, q)
           d == RemoveAndCleanupTarget(b, q)
<1>1. /\ Basic(c, G) /\ OnlineSound(c.remote) /\ ClientInv(c, G, {})
      /\ RefsMatch(c.engine) /\ Pumped(c.engine)
      /\ Watched(c.remote) = DOMAIN c.engine.active \cup DOMAIN c.engine.views
      /\ DOMAIN c.engine.active \subseteq Keys /\ DOMAIN c.engine.views \subseteq Queries
  BY DEF Settled, ClientInv, Basic, RemoteInv, EngineShape
<1>2. RemoteMoves(c, b, G, {q}) /\ Watched(b.remote) = Watched(c.remote) \ {q}
  BY <1>1, UnlistenKeeps
<1> HIDE DEF b
<1>3. Kept(c, b) /\ RemoteInv(b.remote, G) /\ Quiet(c.remote, b.remote)
  BY <1>2 DEF RemoteMoves
<1>4. OfflineKnown(b)
  BY <1>1, <1>3 DEF ClientInv, Kept, Quiet, OfflineKnown
<1>5. ClientInv(b, G, {}) /\ Pumped(b.engine) /\ RefsMatch(b.engine)
  BY <1>1, <1>3, <1>4 DEF ClientInv, Kept
<1>6. q \in Queries /\ q \notin DOMAIN c.engine.active
  BY <1>1, KeysAreNotQueries
<1>7. Watched(b.remote)
        = DOMAIN b.engine.active \cup (DOMAIN b.engine.views \ {q}) \cup {}
  BY <1>1, <1>2, <1>3, <1>6 DEF Kept
<1>8. Cleaned(b, d, G, {}, q)
  BY <1>5, <1>6, <1>7, CleanupKeeps
<1> HIDE DEF d
<1>9. Working(d, G, {}, {}) /\ RefsMatch(d.engine)
  BY <1>8 DEF Cleaned
<1> QED BY <1>9, SettledWorking DEF d, b

(* syncEngineUnlisten.                                                     *)
LEMMA UnlistenStep ==
  ASSUME ListenInv, NEW q \in Queries, Unlisten(q)
  PROVE  ListenInv'
<1>1. /\ q \in DOMAIN Client.engine.views
      /\ \E persisted \in BOOLEAN :
           Finish(RemoveAndCleanupTarget(
             RemoteStoreUnlisten(ReleaseTarget(Client, q, persisted), q), q))
  BY ClientDomain DEF Unlisten
<1>2. PICK persisted \in BOOLEAN :
        Finish(RemoveAndCleanupTarget(
          RemoteStoreUnlisten(ReleaseTarget(Client, q, persisted), q), q))
  BY <1>1
<1> DEFINE b == ReleaseTarget(Client, q, persisted)
           d == RemoveAndCleanupTarget(RemoteStoreUnlisten(b, q), q)
<1>3. Settled(Client, server)
  BY InvariantParts
<1>4. Settled(b, server) /\ b.engine = Client.engine
  BY <1>3, ReleaseKeeps
<1>5. q \in DOMAIN b.engine.views
  BY <1>1, <1>4
<1> HIDE DEF b
<1>6. Settled(d, server)
  BY <1>4, <1>5, UnlistenSettles
<1> HIDE DEF d
<1> QED BY <1>2, <1>6, FinishKeeps DEF d, b

-----------------------------------------------------------------------------
(* The messages of the stream.                                             *)

(* What is known when a message arrives.                                   *)
Arrived(c) ==
  /\ Settled(c, server) /\ c.remote.stream = "Open" /\ AggregatorShape(c.remote.agg)
  /\ Consumes(c.remote, server, Consumed, Message)
  /\ server.resps # << >>

(* A message arrives at a client between two tasks, and is gone            *)
(* afterwards.                                                             *)
LEMMA MessageParts ==
  ASSUME ListenInv, MessageArrived
  PROVE  Arrived(Client)
<1>1. Settled(Client, server)
  BY InvariantParts
<1>3. ServerShape(remote, server) /\ RemoteShape(remote)
  BY RemoteParts
<1>2. Client.remote = remote /\ remote.stream = "Open" /\ server.resps # << >>
  BY <1>3, ClientDomain DEF MessageArrived, RemoteShape
<1>4. AggregatorShape(remote.agg)
  BY <1>2, <1>3 DEF RemoteShape
<1>5. Consumes(remote, server, Consumed, Message)
  BY <1>2, <1>3, ConsumeFacts DEF Consumed, Message
<1> QED BY <1>1, <1>2, <1>4, <1>5 DEF Arrived

(* A message that only the aggregator keeps.                               *)
LEMMA AggregateStep ==
  ASSUME ListenInv, MessageArrived, NEW b, Aggregate(b), Hears(remote, b, Message)
  PROVE  ListenInv'
<1> DEFINE d == [Reached EXCEPT !.remote.agg = b]
<1>1. FinishMessage(d)
  BY DEF Aggregate
<1>2. Arrived(Client) /\ Hears(Client.remote, b, Message)
  BY MessageParts, ClientDomain
<1>3. Settled(d, Consumed)
  BY <1>2, AggregateKeeps DEF Arrived, Reached
<1> HIDE DEF d
<1> QED BY <1>1, <1>3, FinishMessageKeeps

(* One that answers no request.                                            *)
LEMMA OtherStep ==
  ASSUME ListenInv, MessageArrived, NEW b, Aggregate(b), SamePending(remote.agg, b),
         Message.kind \notin {"ADD", "REMOVE", "ERROR"}
  PROVE  ListenInv'
<1>1. Hears(remote, b, Message)
  BY OtherHears
<1> QED BY <1>1, AggregateStep

(* A document change.                                                      *)
LEMMA DocumentChangeStep ==
  ASSUME ListenInv, OnDocumentChange
  PROVE  ListenInv'
<1> DEFINE b == W!HandleDocumentChange(remote.agg, MetadataProvider(Client), Message)
<1>1. MessageArrived /\ Message.kind = "DOCUMENT" /\ Aggregate(b)
  BY DEF OnDocumentChange, Receives
<1>2. AggregatorShape(remote.agg)
  BY <1>1, MessageParts, ClientDomain DEF Arrived
<1>3. SamePending(remote.agg, b)
  BY <1>2, DocumentChangeKeeps
<1> HIDE DEF b
<1> QED BY <1>1, <1>3, OtherStep

(* A target is current.                                                    *)
LEMMA TargetCurrentStep ==
  ASSUME ListenInv, OnTargetCurrent
  PROVE  ListenInv'
<1> DEFINE b == W!HandleCurrent(remote.agg, MetadataProvider(Client), Message.t,
                                Message.token)
<1>1. MessageArrived /\ Message.kind = "CURRENT" /\ Aggregate(b)
  BY DEF OnTargetCurrent, Receives
<1>2. AggregatorShape(remote.agg)
  BY <1>1, MessageParts, ClientDomain DEF Arrived
<1>3. SamePending(remote.agg, b)
  BY <1>2, CurrentKeeps
<1> HIDE DEF b
<1> QED BY <1>1, <1>3, OtherStep

(* A target is reset.                                                      *)
LEMMA TargetResetStep ==
  ASSUME ListenInv, OnTargetReset
  PROVE  ListenInv'
<1> DEFINE b == W!HandleReset(remote.agg, MetadataProvider(Client), Message.t)
<1>1. MessageArrived /\ Message.kind = "RESET" /\ Aggregate(b)
  BY DEF OnTargetReset, Receives
<1>2. AggregatorShape(remote.agg)
  BY <1>1, MessageParts, ClientDomain DEF Arrived
<1>3. SamePending(remote.agg, b)
  BY <1>2, TargetResetKeeps
<1> HIDE DEF b
<1> QED BY <1>1, <1>3, OtherStep

(* An existence filter.                                                    *)
LEMMA ExistenceFilterStep ==
  ASSUME ListenInv, OnExistenceFilter
  PROVE  ListenInv'
<1> DEFINE b == W!HandleExistenceFilter(remote.agg, MetadataProvider(Client), Message)
<1>1. MessageArrived /\ Message.kind = "FILTER" /\ Aggregate(b)
  BY DEF OnExistenceFilter, Receives
<1>2. AggregatorShape(remote.agg)
  BY <1>1, MessageParts, ClientDomain DEF Arrived
<1>3. SamePending(remote.agg, b)
  BY <1>2, ExistenceFilterKeeps
<1> HIDE DEF b
<1> QED BY <1>1, <1>3, OtherStep

(* The answer to a request to watch.                                       *)
LEMMA TargetAddedStep ==
  ASSUME ListenInv, OnTargetAdded
  PROVE  ListenInv'
<1> DEFINE b == W!HandleAdded(remote.agg, Message.t, Message.token)
<1>1. MessageArrived /\ Message.kind = "ADD" /\ Aggregate(b)
  BY DEF OnTargetAdded, Receives
<1>2. AggregatorShape(remote.agg)
  BY <1>1, MessageParts, ClientDomain DEF Arrived
<1>3. Hears(remote, b, Message)
  BY <1>1, <1>2, AddedHears
<1> HIDE DEF b
<1> QED BY <1>1, <1>3, AggregateStep

(* The answer to a request not to watch.                                   *)
LEMMA TargetRemovedStep ==
  ASSUME ListenInv, OnTargetRemoved
  PROVE  ListenInv'
<1> DEFINE b == W!HandleRemoved(remote.agg, Message.t)
<1>1. MessageArrived /\ Message.kind = "REMOVE" /\ Aggregate(b)
  BY DEF OnTargetRemoved, Receives
<1>2. AggregatorShape(remote.agg)
  BY <1>1, MessageParts, ClientDomain DEF Arrived
<1>3. Hears(remote, b, Message)
  BY <1>1, <1>2, RemovedHears
<1> HIDE DEF b
<1> QED BY <1>1, <1>3, AggregateStep

-----------------------------------------------------------------------------
(* A transaction fails, and the network goes off until it works again.     *)
LEMMA RecoveryKeeps ==
  ASSUME NEW c, NEW G, Settled(c, G)
  PROVE  Settled(DisableNetworkUntilRecovery(c), G)
<1> DEFINE causes == StreamClosed(c).remote.causes \cup {"IndexedDbFailed"}
<1>1. DisableNetworkUntilRecovery(c)
        = SetOnline([StreamClosed(c) EXCEPT !.remote.causes = causes], "Offline")
  BY DEF DisableNetworkUntilRecovery
<1> HIDE DEF causes
<1> QED BY <1>1, DisableKeeps

(* What is told with a snapshot, before it is raised.                      *)
TakenIn(c, G) == Settled(c, G) /\ c.remote.stream = "Open" /\ c.remote.online = "Online"

(* The aggregator has noted the snapshot, and the client is online.        *)
LEMMA SnapshotTold ==
  ASSUME ListenInv, MessageArrived, Message.kind = "SNAPSHOT", NEW version
  PROVE  TakenIn([Reached EXCEPT !.remote.agg =
                    W!HandleNoChange(@, MetadataProvider(Client), version)], Consumed)
<1> DEFINE b == W!HandleNoChange(remote.agg, MetadataProvider(Client), version)
           d == [Reached EXCEPT !.remote.agg = b]
<1>1. Arrived(Client) /\ Client.remote = remote
  BY MessageParts, ClientDomain
<1>2. SamePending(remote.agg, b)
  BY <1>1, NoChangeKeeps DEF Arrived
<1>3. Reachable(Client, Reached, server)
  BY <1>1, ReachedKeeps DEF Arrived, Reached
<1>4. /\ DOMAIN Reached = ClientFields /\ IsFunction(Reached.remote)
      /\ DOMAIN Reached.remote = RemoteFields /\ Reached.remote.agg = remote.agg
      /\ Reached.remote.stream = "Open" /\ Reached.remote.online = "Online"
  BY <1>1, <1>3 DEF Reachable, Kept, SameCore
<1>5. d = [Reached EXCEPT !.remote.agg =
                    W!HandleNoChange(@, MetadataProvider(Client), version)]
  BY <1>4
<1> HIDE DEF b
<1>6. Hears(remote, b, Message)
  BY <1>2, OtherHears
<1>7. Settled(d, Consumed)
  BY <1>1, <1>6, AggregateKeeps DEF Arrived, Reached
<1>8. d.remote.stream = "Open" /\ d.remote.online = "Online"
  BY <1>4 DEF ClientFields, RemoteFields
<1> HIDE DEF d
<1> QED BY <1>5, <1>7, <1>8 DEF TakenIn

(* A global snapshot, with its two transactions and their failures.        *)
LEMMA SnapshotStep ==
  ASSUME ListenInv, OnSnapshot
  PROVE  ListenInv'
<1> DEFINE version == Message.version
           told == [Reached EXCEPT !.remote.agg =
                      W!HandleNoChange(@, MetadataProvider(Client), version)]
           raised == RaiseWatchSnapshot(told, version)
           applied == ApplyRemoteEvent(raised.client, raised.event)
<1>1. /\ MessageArrived /\ Message.kind = "SNAPSHOT"
      /\ \/ FinishMessage(DisableNetworkUntilRecovery(told))
         \/ FinishMessage(DisableNetworkUntilRecovery(raised.client))
         \/ FinishMessage(told)
         \/ FinishMessage(applied)
  BY DEF OnSnapshot, Receives
<1>2. TakenIn(told, Consumed)
  BY <1>1, SnapshotTold
<1> HIDE DEF told
<1>3. Settled(told, Consumed) /\ Settled(raised.client, Consumed) /\ Settled(applied, Consumed)
  BY <1>2, SnapshotKeeps DEF TakenIn
<1> HIDE DEF raised, applied
<1>4. /\ Settled(DisableNetworkUntilRecovery(told), Consumed)
      /\ Settled(DisableNetworkUntilRecovery(raised.client), Consumed)
  BY <1>3, RecoveryKeeps
<1> QED BY <1>1, <1>3, <1>4, FinishMessageKeeps

(* A client whose stream is closed is not concerned by what its backend    *)
(* would have said.                                                        *)
LEMMA ClosedUnconcerned ==
  ASSUME NEW c, NEW G, Settled(c, G), c.remote.stream # "Open", NEW H,
         ServerShape(c.remote, H)
  PROVE  Settled(c, H)
<1>1. RemoteInv(c.remote, H)
  BY DEF Settled, ClientInv, RemoteInv, RemoteCore
<1> QED BY <1>1 DEF Settled, ClientInv

(* After a failed transaction the stream is closed.                        *)
LEMMA RecoveryCloses ==
  ASSUME NEW c, NEW G, Settled(c, G)
  PROVE  DisableNetworkUntilRecovery(c).remote.stream = "Stopped"
<1> DEFINE b == StreamClosed(c)
           causes == b.remote.causes \cup {"IndexedDbFailed"}
           d == [b EXCEPT !.remote.causes = causes]
           f == SetOnline(d, "Offline")
<1>1. Basic(c, G)
  BY SettledBasic
<1>2. Basic(b, G) /\ b.remote.stream = "Stopped"
  BY <1>1, StreamClosedKeeps
<1>3. DisableNetworkUntilRecovery(c) = f
  BY DEF DisableNetworkUntilRecovery
<1> HIDE DEF b, causes
<1>4. Basic(d, G) /\ SameCore(b.remote, d.remote) /\ d.remote.stream = "Stopped"
  BY <1>2, CausesKeep
<1> HIDE DEF d
<1>5. SameCore(d.remote, f.remote)
  BY <1>4, SetOfflineKeeps
<1> HIDE DEF f
<1> QED BY <1>2, <1>3, <1>4, <1>5 DEF SameCore

(* The transaction of a rejection fails: the message is gone, and so is    *)
(* the stream.                                                             *)
LEMMA RejectionFails ==
  ASSUME NEW c, Settled(c, server), server.resps # << >>
  PROVE  Settled(DisableNetworkUntilRecovery(c), Consumed)
<1> DEFINE d == DisableNetworkUntilRecovery(c)
<1>1. Settled(d, server) /\ d.remote.stream = "Stopped"
  BY RecoveryKeeps, RecoveryCloses
<1> HIDE DEF d
<1>2. ServerShape(d.remote, server)
  BY <1>1 DEF Settled, ClientInv, RemoteInv, RemoteCore
<1>3. ServerShape(d.remote, Consumed)
  BY <1>2, ConsumeFacts DEF Consumes, Consumed
<1> QED BY <1>1, <1>3, ClosedUnconcerned DEF d

(* A target is rejected: one that is gone, a limbo resolution or a query.  *)
LEMMA TargetErrorStep ==
  ASSUME ListenInv, OnTargetError
  PROVE  ListenInv'
<1> DEFINE t == Message.t
           sdk == remote.listens[t].sdk
<1>1. MessageArrived /\ Message.kind = "ERROR" /\ Message = Head(server.resps)
  BY DEF OnTargetError, Receives, Message
<1>2. Arrived(Client) /\ Client.remote = remote
  BY <1>1, MessageParts, ClientDomain
<1>3. Reachable(Client, Reached, server)
  BY <1>2, ReachedKeeps DEF Arrived, Reached
<1>4. /\ Settled(Reached, server) /\ Reached.remote.listens = remote.listens
      /\ Reached.remote.online # "Offline" /\ server.resps # << >>
  BY <1>2, <1>3 DEF Reachable, SameCore, Arrived
<1>5. CASE t \notin DOMAIN remote.listens /\ Aggregate(W!RemoveTarget(remote.agg, t))
  <2>1. AggregatorShape(remote.agg)
    BY <1>2 DEF Arrived
  <2>2. Hears(remote, W!RemoveTarget(remote.agg, t), Message)
    BY <1>1, <1>5, <2>1, ErrorHears
  <2> QED BY <1>1, <1>5, <2>2, AggregateStep
<1>6. CASE FinishMessage(DisableNetworkUntilRecovery(Reached))
  <2>1. Settled(DisableNetworkUntilRecovery(Reached), Consumed)
    BY <1>4, RejectionFails
  <2> QED BY <1>6, <2>1, FinishMessageKeeps
<1>7. CASE /\ t \in DOMAIN remote.listens /\ IsLimbo(sdk)
           /\ FinishMessage(DropRejectedTarget(RejectLimbo(Reached, sdk), t))
  <2> DEFINE d == DropRejectedTarget(RejectLimbo(Reached, sdk), t)
  <2>1. /\ t \in DOMAIN Reached.remote.listens /\ sdk \in Keys
        /\ sdk = Reached.remote.listens[t].sdk
        /\ Head(server.resps).kind = "ERROR" /\ Head(server.resps).t = t
    BY <1>1, <1>4, <1>7 DEF IsLimbo
  <2> HIDE DEF t, sdk
  <2>2. Settled(d, [server EXCEPT !.resps = Tail(@)])
    BY <1>4, <2>1, RejectLimboKeeps
  <2> HIDE DEF d
  <2>3. Settled(d, Consumed)
    BY <2>2 DEF Consumed
  <2> QED BY <1>7, <2>3, FinishMessageKeeps DEF d
<1>8. CASE /\ t \in DOMAIN remote.listens /\ ~IsLimbo(sdk)
           /\ \E persisted \in BOOLEAN :
                FinishMessage(DropRejectedTarget(RejectQuery(Reached, sdk, persisted), t))
  <2>1. PICK persisted \in BOOLEAN :
          FinishMessage(DropRejectedTarget(RejectQuery(Reached, sdk, persisted), t))
    BY <1>8
  <2> DEFINE d == DropRejectedTarget(RejectQuery(Reached, sdk, persisted), t)
  <2>2. /\ t \in DOMAIN Reached.remote.listens /\ sdk \notin Keys
        /\ sdk = Reached.remote.listens[t].sdk
        /\ Head(server.resps).kind = "ERROR" /\ Head(server.resps).t = t
    BY <1>1, <1>4, <1>8 DEF IsLimbo
  <2> HIDE DEF t, sdk
  <2>3. Settled(d, [server EXCEPT !.resps = Tail(@)])
    BY <1>4, <2>2, RejectQueryKeeps
  <2> HIDE DEF d
  <2>4. Settled(d, Consumed)
    BY <2>3 DEF Consumed
  <2> QED BY <2>1, <2>4, FinishMessageKeeps DEF d
<1> QED BY <1>5, <1>6, <1>7, <1>8 DEF OnTargetError

-----------------------------------------------------------------------------
(* Every step.                                                             *)

(* The application's calls.                                                *)
LEMMA ApplicationKeeps ==
  ASSUME ~Reenables, ListenInv, Application
  PROVE  ListenInv'
<1>1. ASSUME NEW q \in Queries, Listen(q) PROVE ListenInv'
  BY <1>1, ListenStep
<1>2. ASSUME NEW q \in Queries, Unlisten(q) PROVE ListenInv'
  BY <1>2, UnlistenStep
<1>3. CASE DisableNetwork
  BY <1>3, DisableNetworkKeeps
<1>4. CASE EnableNetwork
  BY <1>4, EnableNetworkKeeps
<1>5. CASE RestartNetwork
  BY <1>5, RestartNetworkKeeps
<1>6. CASE Restart
  BY <1>6, RestartKeeps
<1> QED BY <1>1, <1>2, <1>3, <1>4, <1>5, <1>6 DEF Application

(* The stream's callbacks and the timers.                                  *)
LEMMA StreamKeeps ==
  ASSUME ~Reenables, ListenInv, Stream
  PROVE  ListenInv'
<1>1. CASE OnWatchStreamOpen
  BY <1>1, StreamOpenKeeps
<1>2. CASE OnWatchStreamConnected
  BY <1>2, ConnectedKeeps
<1>3. CASE OnWatchStreamClose
  BY <1>3, StreamCloseKeeps
<1>4. CASE IdleTimeout
  BY <1>4, IdleTimeoutKeeps
<1>5. CASE OnlineStateTimeout
  BY <1>5, OnlineTimeoutKeeps
<1>6. CASE RecoverNetwork
  BY <1>6, EnableNetworkKeeps
<1> QED BY <1>1, <1>2, <1>3, <1>4, <1>5, <1>6 DEF Stream

(* The messages.                                                           *)
LEMMA WatchChangeKeeps ==
  ASSUME ListenInv, WatchChange
  PROVE  ListenInv'
<1>1. CASE OnDocumentChange
  BY <1>1, DocumentChangeStep
<1>2. CASE OnTargetAdded
  BY <1>2, TargetAddedStep
<1>3. CASE OnTargetRemoved
  BY <1>3, TargetRemovedStep
<1>4. CASE OnTargetCurrent
  BY <1>4, TargetCurrentStep
<1>5. CASE OnTargetReset
  BY <1>5, TargetResetStep
<1>6. CASE OnExistenceFilter
  BY <1>6, ExistenceFilterStep
<1>7. CASE OnSnapshot
  BY <1>7, SnapshotStep
<1>8. CASE OnTargetError
  BY <1>8, TargetErrorStep
<1> QED BY <1>1, <1>2, <1>3, <1>4, <1>5, <1>6, <1>7, <1>8 DEF WatchChange

(* The backend.                                                            *)
LEMMA BackendStepKeeps ==
  ASSUME ListenInv, Backend
  PROVE  ListenInv'
<1>1. CASE ServerCommits
  BY <1>1, CommitsKeep
<1>2. CASE ServerAccepts
  BY <1>2, AcceptsKeep
<1>3. CASE ServerRemoves
  BY <1>3, RemovesKeep
<1>4. CASE ServerSnapshot
  BY <1>4, SnapshotSent
<1>5. ASSUME NEW t, ServerRejects(t) PROVE ListenInv'
  BY <1>5, RejectsKeep
<1> QED BY <1>1, <1>2, <1>3, <1>4, <1>5 DEF Backend

(* Every step, and stuttering.                                             *)
LEMMA ListenNext ==
  ASSUME ~Reenables, ListenInv, [Next]_vars
  PROVE  ListenInv'
<1>1. CASE Next
  BY <1>1, ApplicationKeeps, StreamKeeps, WatchChangeKeeps, BackendStepKeeps DEF Next
<1>2. CASE UNCHANGED vars
  BY <1>2, StutterKeeps
<1> QED BY <1>1, <1>2

(* The invariant holds always.                                             *)
THEOREM ListenInvariant ==
  ASSUME ~Reenables
  PROVE  Spec => []ListenInv
<1>1. Init => ListenInv
  BY InitListen
<1>2. ListenInv /\ [Next]_vars => ListenInv'
  BY ListenNext
<1> QED BY <1>1, <1>2, PTL DEF Spec

-----------------------------------------------------------------------------
(* What follows.                                                           *)

(* The references are the doubts of the views.                             *)
LEMMA RefsAreDoubts ==
  ASSUME NEW e, EngineShape(e), RefsMatch(e)
  PROVE  e.refs = UNION {e.views[q].limbo \X {q} : q \in DOMAIN e.views}
<1> DEFINE D == UNION {e.views[q].limbo \X {q} : q \in DOMAIN e.views}
<1>1. /\ e.refs \subseteq Keys \X Queries /\ DOMAIN e.views \subseteq Queries
      /\ \A q \in DOMAIN e.views : e.views[q].limbo \subseteq Keys
      /\ \A k \in Keys, q \in Queries :
           <<k, q>> \in e.refs <=> q \in DOMAIN e.views /\ k \in e.views[q].limbo
  BY DEF EngineShape, ViewSound, RefsMatch
<1>2. ASSUME NEW x \in e.refs PROVE x \in D
  <2>1. PICK k \in Keys, q \in Queries : x = <<k, q>>
    BY <1>1
  <2>2. q \in DOMAIN e.views /\ x \in e.views[q].limbo \X {q}
    BY <1>1, <2>1
  <2> QED BY <2>2
<1>3. ASSUME NEW x \in D PROVE x \in e.refs
  <2>1. PICK q \in DOMAIN e.views : x \in e.views[q].limbo \X {q}
    OBVIOUS
  <2>2. PICK k \in e.views[q].limbo : x = <<k, q>>
    BY <2>1
  <2> QED BY <1>1, <2>2
<1> HIDE DEF D
<1>4. e.refs \subseteq D /\ D \subseteq e.refs
  BY <1>2, <1>3
<1> QED BY <1>4 DEF D

(* The five tables about documents in limbo agree.                         *)
LEMMA LimboTables ==
  ASSUME ListenInv
  PROVE  LimboTablesAgree
<1>1. /\ EngineShape(engine) /\ RefsMatch(engine) /\ Pumped(engine) /\ Limbo(engine, {})
      /\ Watched(remote) = DOMAIN engine.active \cup DOMAIN engine.views
  BY ClientDomain DEF ListenInv, ClientInv
<1>2. engine.refs = UNION {engine.views[q].limbo \X {q} : q \in DOMAIN engine.views}
  BY <1>1, RefsAreDoubts
<1>3. DOMAIN engine.active \subseteq Keys /\ DOMAIN engine.views \cap Keys = {}
  BY <1>1, KeysAreNotQueries DEF EngineShape
<1>4. DOMAIN engine.active = Watched(remote) \cap Keys
  BY <1>1, <1>3
<1>5. \A k \in DOMAIN engine.active \cup Range(engine.enqueued) : IsReferenced(Client, k)
  BY <1>1, ClientDomain DEF Limbo, Referenced, IsReferenced
<1> QED BY <1>1, <1>2, <1>4, <1>5 DEF LimboTablesAgree, Limbo, Pumped, Watched

(* The tables of limbo resolution agree in every reachable state.          *)
THEOREM LimboAgreement ==
  ASSUME ~Reenables
  PROVE  Spec => []LimboTablesAgree
<1>1. ListenInv => LimboTablesAgree
  BY LimboTables
<1> QED BY <1>1, ListenInvariant, PTL

(* The count of a target whose error is not on its way is the number of    *)
(* its requests and unread answers.                                        *)
LEMMA PendingMatch ==
  ASSUME ListenInv
  PROVE  PendingResponsesMatch
<1>1. RemoteInv(remote, server) /\ RemoteShape(remote)
  BY RemoteParts
<1>2. SUFFICES ASSUME remote.stream = "Open", NEW t \in DOMAIN remote.agg.states,
                      Responses({"ERROR"}, t) = {}
               PROVE  remote.agg.states[t].pending =
                        Cardinality(Asked(t)) + Cardinality(Responses({"ADD", "REMOVE"}, t))
  BY DEF PendingResponsesMatch
<1>3. t \in Allocated(remote)
  BY <1>1, <1>2 DEF RemoteShape
<1>4. Conversation(remote, server, t)
  BY <1>1, <1>2, <1>3 DEF RemoteInv, RemoteCore
<1>5. /\ Asked(t) = AskedOf(remote, t)
      /\ \A kinds : Responses(kinds, t) = ResponsesTo(server.resps, kinds, t)
  BY DEF Asked, AskedOf, Responses, ResponsesTo
<1>6. Counted(remote, server, t)
  BY <1>2, <1>4, <1>5 DEF Conversation
<1> QED BY <1>2, <1>5, <1>6 DEF Counted, PendingOf

(* No target waits for an answer that does not come, or believes an        *)
(* earlier watch.                                                          *)
THEOREM PendingCounted ==
  ASSUME ~Reenables
  PROVE  Spec => []PendingResponsesMatch
<1>1. ListenInv => PendingResponsesMatch
  BY PendingMatch
<1> QED BY <1>1, ListenInvariant, PTL

(* The online state's timer and an online client have the stream they      *)
(* need.                                                                   *)
THEOREM OnlineStateSound ==
  ASSUME ~Reenables
  PROVE  Spec => []OnlineStateFollowsStream
<1>1. ListenInv => OnlineStateFollowsStream
  BY RemoteParts DEF RemoteInv, OnlineSound, OnlineStateFollowsStream
<1> QED BY <1>1, ListenInvariant, PTL

(* The idle timer runs only when nothing is listened to.                   *)
LEMMA IdleUnlistened ==
  ASSUME ListenInv
  PROVE  IdleOnlyWhenUnlistened
<1>1. RemoteInv(remote, server) /\ RemoteShape(remote)
  BY RemoteParts
<1>2. remote.idle => DOMAIN remote.listens = {} /\ IsFunction(remote.listens)
  BY <1>1 DEF RemoteInv, RemoteCore, IdleSound, RemoteShape
<1> QED BY <1>2, EmptyFunction DEF IdleOnlyWhenUnlistened

(* It never closes a stream that a target needs.                           *)
THEOREM IdleStreamUnneeded ==
  ASSUME ~Reenables
  PROVE  Spec => []IdleOnlyWhenUnlistened
<1>1. ListenInv => IdleOnlyWhenUnlistened
  BY IdleUnlistened
<1> QED BY <1>1, ListenInvariant, PTL

(* A view that is not current is a local one.                              *)
LEMMA OfflineFromCache ==
  ASSUME ListenInv
  PROVE  OfflineViewsAreFromCache
<1>1. EngineShape(engine) /\ OfflineKnown(Client)
  BY ClientDomain DEF ListenInv, ClientInv
<1>2. SUFFICES ASSUME remote.online = "Offline", NEW q \in DOMAIN engine.views
               PROVE  ~engine.views[q].current /\ engine.views[q].state = "Local"
  BY DEF OfflineViewsAreFromCache
<1>3. ~engine.views[q].current
  BY <1>1, <1>2, ClientDomain DEF OfflineKnown
<1>4. ViewSound(engine.views[q])
  BY <1>1 DEF EngineShape
<1> QED BY <1>3, <1>4 DEF ViewSound

(* A client that knows it is offline shows no view as up to date.          *)
THEOREM OfflineIsFromCache ==
  ASSUME ~Reenables
  PROVE  Spec => []OfflineViewsAreFromCache
<1>1. ListenInv => OfflineViewsAreFromCache
  BY OfflineFromCache
<1> QED BY <1>1, ListenInvariant, PTL

=============================================================================
